---- MODULE Spec2Model ----
(***************************************************************************)
(* Model of the AUC course-catalog prerequisite parser                     *)
(* (src/parse_all_courses.py) and of the reverse-dependency graph builder  *)
(* (src/add_reverse_prerequisites.py).                                     *)
(*                                                                         *)
(* A Python str is modelled as a sequence of one-character strings, so     *)
(* that every regular expression of the source is translated character by  *)
(* character.  The alphabet is ASCII; the whitespace characters of the     *)
(* model are the space and the tab.                                        *)
(***************************************************************************)
EXTENDS Integers, Sequences, FiniteSets, TLC

\* ------------------------------------------------------------------------
\* Characters
\* ------------------------------------------------------------------------

UpperSet == {"A","B","C","D","E","F","G","H","I","J","K","L","M",
             "N","O","P","Q","R","S","T","U","V","W","X","Y","Z"}

LowerSet == {"a","b","c","d","e","f","g","h","i","j","k","l","m",
             "n","o","p","q","r","s","t","u","v","w","x","y","z"}

DigitSet == {"0","1","2","3","4","5","6","7","8","9"}

DigitSeq == <<"0","1","2","3","4","5","6","7","8","9">>

\* str.lower() on the upper-case ASCII letters
LowerOf == [A |-> "a", B |-> "b", C |-> "c", D |-> "d", E |-> "e", F |-> "f",
            G |-> "g", H |-> "h", I |-> "i", J |-> "j", K |-> "k", L |-> "l",
            M |-> "m", N |-> "n", O |-> "o", P |-> "p", Q |-> "q", R |-> "r",
            S |-> "s", T |-> "t", U |-> "u", V |-> "v", W |-> "w", X |-> "x",
            Y |-> "y", Z |-> "z"]

ToLower(c) == IF c \in UpperSet THEN LowerOf[c] ELSE c

\* text.lower() forgotten: the text is compared as written
LowerStrIdentity(s) == s

\* text.lower()
LowerStr(s) == [i \in 1..Len(s) |-> ToLower(s[i])]

\* the regular-expression class \s and the characters str.strip() removes
IsSpace(c) == c \in {" ", "\t"}

\* [A-Z]
IsUpper(c) == c \in UpperSet

\* \d
IsDigit(c) == c \in DigitSet

\* \w, the class that decides \b
IsWord(c) == c \in UpperSet \cup LowerSet \cup DigitSet \cup {"_"}

\* ------------------------------------------------------------------------
\* String helpers (Python str methods and the primitive regex steps)
\* ------------------------------------------------------------------------

\* s[i-1:], 1-based: the characters from position i on
From(s, i) == SubSeq(s, i, Len(s))

\* s[:i-1], 1-based: the characters before position i
Before(s, i) == SubSeq(s, 1, i - 1)

\* the literal lit occurs in s at position i
LitAt(s, i, lit) ==
    /\ i >= 1
    /\ i + Len(lit) - 1 <= Len(s)
    /\ \A k \in 1..Len(lit) : s[i + k - 1] = lit[k]

\* the (lower-case) literal lit occurs in s at position i under re.IGNORECASE
LitAtCI(s, i, lit) ==
    /\ i >= 1
    /\ i + Len(lit) - 1 <= Len(s)
    /\ \A k \in 1..Len(lit) : ToLower(s[i + k - 1]) = lit[k]

\* lit in s
Contains(s, lit) == \E i \in 1..(Len(s) - Len(lit) + 1) : LitAt(s, i, lit)

\* s.startswith(lit)
StartsWith(s, lit) == LitAt(s, 1, lit)

\* the least element of a non-empty set of positions
MinOf(S) == CHOOSE i \in S : \A j \in S : i <= j

\* a greedy \s*: the first position >= i that holds no whitespace
RECURSIVE SkipWs(_, _)
SkipWs(s, i) == IF i <= Len(s) /\ IsSpace(s[i]) THEN SkipWs(s, i + 1) ELSE i

\* str.strip(chars) on the left and on the right
RECURSIVE LStripChars(_, _)
LStripChars(s, chars) ==
    IF Len(s) > 0 /\ s[1] \in chars THEN LStripChars(Tail(s), chars) ELSE s

RECURSIVE RStripChars(_, _)
RStripChars(s, chars) ==
    IF Len(s) > 0 /\ s[Len(s)] \in chars
    THEN RStripChars(SubSeq(s, 1, Len(s) - 1), chars)
    ELSE s

StripChars(s, chars) == RStripChars(LStripChars(s, chars), chars)

\* str.strip()
Strip(s) == StripChars(s, {" ", "\t"})

\* str.replace(" ", "")
RemoveSpaces(s) == SelectSeq(s, LAMBDA c : c # " ")

\* the least element of a set of positions, or 0 when it is empty
FirstOrZero(S) == IF S = {} THEN 0 ELSE MinOf(S)

\* str.replace(lit, repl): every non-overlapping occurrence, left to right
RECURSIVE ReplaceAll(_, _, _)
ReplaceAll(s, lit, repl) ==
    LET At(i) ==
            IF i = 0 THEN s
            ELSE Before(s, i) \o repl
                   \o ReplaceAll(From(s, i + Len(lit)), lit, repl)
    IN At(FirstOrZero({i \in 1..(Len(s) - Len(lit) + 1) : LitAt(s, i, lit)}))

\* str(n) for n >= 0
RECURSIVE Decimal(_)
Decimal(n) ==
    IF n < 10 THEN <<DigitSeq[n + 1]>>
    ELSE Decimal(n \div 10) \o <<DigitSeq[(n % 10) + 1]>>

\* ------------------------------------------------------------------------
\* Literals of the source, as character sequences
\* ------------------------------------------------------------------------

LitAnd == <<"a","n","d">>

LitOr == <<"o","r">>

LitFor == <<"f","o","r">>

LitWith == <<"w","i","t","h">>

\* 'concurrent' (line 89, and the regexes of lines 94, 181, 223)
LitConcurrent == <<"c","o","n","c","u","r","r","e","n","t">>

\* 'prerequisite: concurrent' (line 89)
LitPrereqConcurrent ==
    <<"p","r","e","r","e","q","u","i","s","i","t","e",
      ":"," ","c","o","n","c","u","r","r","e","n","t">>

\* 'Must be taken concurrently with' (line 94), lower-cased
LitMustBeTaken ==
    <<"m","u","s","t"," ","b","e"," ","t","a","k","e","n",
      " ","c","o","n","c","u","r","r","e","n","t","l","y"," ","w","i","t",
      "h">>

\* 'Pre-requisites' (line 153), lower-cased
LitPreRequisites ==
    <<"p","r","e","-","r","e","q","u","i","s","i","t","e",
      "s">>

LitConcurrentColon == <<"c","o","n","c","u","r","r","e","n","t",":">>

\* 'Prerequisite:' (line 154), lower-cased
LitPrerequisiteColon ==
    <<"p","r","e","r","e","q","u","i","s","i","t","e",
      ":">>

\* '~~~CONCURRENT~~~' (lines 181, 187)
ConcurrentMark ==
    <<"~","~","~","C","O","N","C","U","R","R","E","N","T",
      "~","~","~">>

\* 'and concurrent' (line 187)
LitAndConcurrent ==
    <<"a","n","d"," ","c","o","n","c","u","r","r","e","n",
      "t">>

\* '~~~GROUP' (lines 274, 299)
GroupMarkHead == <<"~","~","~","G","R","O","U","P">>

GroupMarkTail == <<"~","~","~">>

\* ' | Concurrent: ' (line 63)
ConcurrentFieldLabel ==
    <<" ","|"," ","C","o","n","c","u","r","r","e","n",
      "t",":"," ">>

\* ------------------------------------------------------------------------
\* The regular expressions of PrerequisiteParser.  Each XxxEnd(s, i) is the
\* position just after the match that starts at position i, or 0 when the
\* expression does not match there.
\* ------------------------------------------------------------------------

\* COURSE_PATTERN  \b[A-Z]{4}\s*\d{4}\b
CoursePatternEnd(s, i) ==
    LET Digits(j) ==
            IF /\ j + 3 <= Len(s)
               /\ \A k \in 0..3 : IsDigit(s[j + k])
               /\ (j + 4 > Len(s) \/ ~IsWord(s[j + 4]))
            THEN j + 4
            ELSE 0
    IN IF /\ i >= 1
          /\ i + 3 <= Len(s)
          /\ (i = 1 \/ ~IsWord(s[i - 1]))
          /\ \A k \in 0..3 : IsUpper(s[i + k])
       THEN Digits(SkipWs(s, i + 4))
       ELSE 0

\* re.search(COURSE_PATTERN, s): the start of the leftmost match, or 0
CourseSearch(s) == FirstOrZero({i \in 1..Len(s) : CoursePatternEnd(s, i) # 0})

\* re.search in the place of re.findall: the first match only
CourseFindFirst(s) ==
    LET At(i) ==
            IF i = 0 THEN << >> ELSE <<SubSeq(s, i, CoursePatternEnd(s, i) - 1)>>
    IN At(CourseSearch(s))

\* re.findall(COURSE_PATTERN, s): the matched texts, left to right
RECURSIVE CourseFindAll(_)
CourseFindAll(s) ==
    LET Cut(i, e) == <<SubSeq(s, i, e - 1)>> \o CourseFindAll(From(s, e))
        At(i) == IF i = 0 THEN << >> ELSE Cut(i, CoursePatternEnd(s, i))
    IN At(CourseSearch(s))

\* ,?\s*and\s+concurrent\s+with  (the first two alternatives of line 94,
\* which re.IGNORECASE makes the same expression)
AndConcurrentWithEnd(s, i) ==
    LET WordWith(n) == IF LitAtCI(s, n, LitWith) THEN n + 4 ELSE 0
        WordConcurrent(m) ==
            IF /\ LitAtCI(s, m, LitConcurrent)
               /\ m + 10 <= Len(s)
               /\ IsSpace(s[m + 10])
            THEN WordWith(SkipWs(s, m + 10))
            ELSE 0
        WordAnd(k) ==
            IF LitAtCI(s, k, LitAnd) /\ k + 3 <= Len(s) /\ IsSpace(s[k + 3])
            THEN WordConcurrent(SkipWs(s, k + 3))
            ELSE 0
    IN WordAnd(SkipWs(s, IF i <= Len(s) /\ s[i] = "," THEN i + 1 ELSE i))

\* the whole alternation of line 94 at position i
TransitionEnd(s, i) ==
    LET Alternatives(e) ==
            IF e # 0 THEN e
            ELSE IF LitAtCI(s, i, LitMustBeTaken)
            THEN i + Len(LitMustBeTaken)
            ELSE 0
    IN Alternatives(AndConcurrentWithEnd(s, i))

\* the rightmost match of line 93 in the place of the leftmost
TransitionSearchLast(s) ==
    LET Last(S) == IF S = {} THEN 0 ELSE CHOOSE i \in S : \A j \in S : j <= i
    IN Last({i \in 1..Len(s) : TransitionEnd(s, i) # 0})

\* re.search of line 93: the start of the leftmost match, or 0
TransitionSearch(s) == FirstOrZero({i \in 1..Len(s) : TransitionEnd(s, i) # 0})

\* for\s+(.+?)(?:\.|$) at position i: <<start, end>> of group 1, or << >>.
\* \s+ is greedy and gives its last whitespace back when nothing follows it;
\* .+? is lazy and stops before the first '.' or at the end of the text.
ForNoteGroup(s, i) ==
    LET Lazy(g) ==
            IF g = 0 THEN << >>
            ELSE <<g, MinOf({e \in g..Len(s) : e = Len(s) \/ s[e + 1] = "."})>>
        Greedy(j) ==
            Lazy(IF j <= Len(s) THEN j
                 ELSE IF j - 1 > i + 3 THEN j - 1
                 ELSE 0)
    IN IF LitAtCI(s, i, LitFor) /\ i + 3 <= Len(s) /\ IsSpace(s[i + 3])
       THEN Greedy(SkipWs(s, i + 3))
       ELSE << >>

\* r'\([^()]+\)' at position i
GroupPatternEnd(s, i) ==
    LET Close(j) == IF j # 0 /\ s[j] = ")" /\ j > i + 1 THEN j + 1 ELSE 0
    IN IF i >= 1 /\ i <= Len(s) /\ s[i] = "("
       THEN Close(FirstOrZero({j \in (i + 1)..Len(s) : s[j] \in {"(", ")"}}))
       ELSE 0

\* \(\s*or\s+concurrent\s*\) at position i (line 223)
OrConcurrentEnd(s, i) ==
    LET Close(m) == IF m <= Len(s) /\ s[m] = ")" THEN m + 1 ELSE 0
        WordConcurrent(k) ==
            IF LitAtCI(s, k, LitConcurrent) THEN Close(SkipWs(s, k + 10))
            ELSE 0
        WordOr(j) ==
            IF LitAtCI(s, j, LitOr) /\ j + 2 <= Len(s) /\ IsSpace(s[j + 2])
            THEN WordConcurrent(SkipWs(s, j + 2))
            ELSE 0
    IN IF i >= 1 /\ i <= Len(s) /\ s[i] = "("
       THEN WordOr(SkipWs(s, i + 1))
       ELSE 0

\* \s+word\s+ at position i, for word = and (line 184), or (line 197)
SeparatorEnd(s, i, word) ==
    LET Word(j) ==
            IF /\ LitAtCI(s, j, word)
               /\ j + Len(word) <= Len(s)
               /\ IsSpace(s[j + Len(word)])
            THEN SkipWs(s, j + Len(word))
            ELSE 0
    IN IF i >= 1 /\ i <= Len(s) /\ IsSpace(s[i])
       THEN Word(SkipWs(s, i))
       ELSE 0

\* re.split(r'\s+word\s+', s, flags=re.IGNORECASE)
RECURSIVE SplitOnWord(_, _)
SplitOnWord(s, word) ==
    LET At(i) ==
            IF i = 0 THEN <<s>>
            ELSE <<Before(s, i)>>
                   \o SplitOnWord(From(s, SeparatorEnd(s, i, word)), word)
    IN At(FirstOrZero({i \in 1..Len(s) : SeparatorEnd(s, i, word) # 0}))

\* \band\s+concurrent\b at position i (line 181)
AndConcurrentEnd(s, i) ==
    LET WordConcurrent(j) ==
            IF /\ LitAtCI(s, j, LitConcurrent)
               /\ (j + 10 > Len(s) \/ ~IsWord(s[j + 10]))
            THEN j + 10
            ELSE 0
    IN IF /\ LitAtCI(s, i, LitAnd)
          /\ (i = 1 \/ ~IsWord(s[i - 1]))
          /\ i + 3 <= Len(s)
          /\ IsSpace(s[i + 3])
       THEN WordConcurrent(SkipWs(s, i + 3))
       ELSE 0

\* re.sub(r'\band\s+concurrent\b', '~~~CONCURRENT~~~', s, flags=re.IGNORECASE)
RECURSIVE ProtectAndConcurrent(_)
ProtectAndConcurrent(s) ==
    LET At(i) ==
            IF i = 0 THEN s
            ELSE Before(s, i) \o ConcurrentMark
                   \o ProtectAndConcurrent(From(s, AndConcurrentEnd(s, i)))
    IN At(FirstOrZero({i \in 1..Len(s) : AndConcurrentEnd(s, i) # 0}))

\* ^Pre-requisites\s+or\s+concurrent:\s* removed (line 153)
StripPreRequisitesLabel(s) ==
    LET WordConcurrent(k) ==
            IF LitAtCI(s, k, LitConcurrentColon)
            THEN From(s, SkipWs(s, k + Len(LitConcurrentColon)))
            ELSE s
        WordOr(j) ==
            IF LitAtCI(s, j, LitOr) /\ j + 2 <= Len(s) /\ IsSpace(s[j + 2])
            THEN WordConcurrent(SkipWs(s, j + 2))
            ELSE s
        Label(a) ==
            IF LitAtCI(s, 1, LitPreRequisites) /\ a <= Len(s) /\ IsSpace(s[a])
            THEN WordOr(SkipWs(s, a))
            ELSE s
    IN Label(Len(LitPreRequisites) + 1)

\* ^Prerequisite:\s* removed (line 154)
StripPrerequisiteLabel(s) ==
    IF LitAtCI(s, 1, LitPrerequisiteColon)
    THEN From(s, SkipWs(s, Len(LitPrerequisiteColon) + 1))
    ELSE s

\* ------------------------------------------------------------------------
\* Expression nodes (the dictionaries the parser builds)
\* ------------------------------------------------------------------------

\* Python's None
None == [type |-> "None"]

\* the RecursionError that unbounded recursion of _parse_expression and
\* _parse_with_groups raises; it propagates to the caller of parse
RecursionError == [type |-> "RecursionError"]

IsError(n) == n.type = "RecursionError"

\* the leaf of _parse_atomic (lines 233-238)
CourseNode(code, is_concurrent) ==
    [type |-> "course", course_code |-> code,
     is_concurrent |-> is_concurrent, is_optional |-> FALSE]

\* the leaf of _parse_concurrent (lines 131, 135)
ConcurrentCourseNode(code) == [type |-> "course", course_code |-> code]

\* the children of a node, each kept once
RECURSIVE Distinct(_)
Distinct(children) ==
    IF children = << >> THEN << >>
    ELSE LET front == Distinct(SubSeq(children, 1, Len(children) - 1))
             last == children[Len(children)]
         IN IF \E i \in 1..Len(front) : front[i] = last THEN front
            ELSE Append(front, last)

\* an And node that merges equal children
AndNodeDistinct(children) == [type |-> "and", children |-> Distinct(children)]

AndNode(children) == [type |-> "and", children |-> children]

\* an Or whose children are collected in a set-like list: no duplicates
OrNodeDistinct(children) == [type |-> "or", children |-> Distinct(children)]

OrNode(children) == [type |-> "or", children |-> children]

GroupNode(expression) == [type |-> "group", expression |-> expression]

\* a concurrent requirement stored as its bare course, without the
\* Concurrent wrapper
ConcurrentUnwrapped(course, note) == course

ConcurrentNode(course, note) ==
    [type |-> "concurrent", course |-> course, note |-> note]

\* a fragment without a course code dropped instead of kept
TextConditionDropped(condition, category) == None

TextConditionNode(condition, category) ==
    [type |-> "text_condition", condition |-> condition,
     category |-> category]

\* the surviving children collected in a set-like list: no duplicates
SurvivingDistinct(children) ==
    Distinct(SelectSeq(children, LAMBDA c : c # None))

\* [c for c in children if c]: the children that are not None
Surviving(children) == SelectSeq(children, LAMBDA c : c # None)

\* ------------------------------------------------------------------------
\* PrerequisiteParser
\* ------------------------------------------------------------------------

\* self.text_conditions (lines 27-34), in insertion order
text_conditions == <<
    [cat |-> "standing",
     keywords |-> <<
         <<"s","e","n","i","o","r"," ","s","t","a","n","d","i","n","g">>,
         <<"j","u","n","i","o","r"," ","s","t","a","n","d","i","n","g">>,
         <<"s","o","p","h","o","m","o","r","e"," ","s","t","a","n","d","i","n","g">>,
         <<"f","r","e","s","h","m","a","n"," ","s","t","a","n","d","i","n","g">>,
         <<"s","t","a","n","d","i","n","g">>>>],
    [cat |-> "approval",
     keywords |-> <<
         <<"i","n","s","t","r","u","c","t","o","r"," ","a","p","p","r","o","v","a","l">>,
         <<"c","o","n","s","e","n","t"," ","o","f"," ","i","n","s","t","r","u","c","t","o","r">>,
         <<"a","p","p","r","o","v","a","l">>,
         <<"p","e","r","m","i","s","s","i","o","n">>,
         <<"i","n","s","t","r","u","c","t","o","r"," ","c","o","n","s","e","n","t">>>>],
    [cat |-> "exemption",
     keywords |-> <<
         <<"e","x","e","m","p","t","i","o","n">>>>],
    [cat |-> "preparation",
     keywords |-> <<
         <<"p","r","e","p","a","r","a","t","i","o","n"," ","c","o","u","r","s","e">>,
         <<"c","o","l","l","e","g","e"," ","l","e","v","e","l">>>>]>>

\* the threshold of line 252: a fragment of category other is kept only when
\* it is longer than this
MinConditionLen == 5

\* lines 244-249: the loop over text_conditions.items(); the break leaves
\* the inner loop only, so a later category overwrites an earlier one
RECURSIVE CategoryLoop(_, _, _)
CategoryLoop(text_lower, k, category) ==
    IF k > Len(text_conditions) THEN category
    ELSE LET entry == text_conditions[k]
             found == \E w \in 1..Len(entry.keywords) :
                          Contains(text_lower, entry.keywords[w])
         IN CategoryLoop(text_lower, k + 1,
                         IF found THEN entry.cat ELSE category)

\* _parse_atomic
_parse_atomic(text) ==
    LET Classify(t, is_concurrent, c, category) ==
            IF c # 0
            THEN CourseNode(
                     RemoveSpaces(SubSeq(t, c, CoursePatternEnd(t, c) - 1)),
                     is_concurrent)
            ELSE IF category # "other" \/ Len(t) > MinConditionLen
            THEN TextConditionNode(t, category)
            ELSE None
        \* lines 228-259, on the text without the modifier
        Atom(t, is_concurrent) ==
            Classify(t, is_concurrent, CourseSearch(t),
                     CategoryLoop(LowerStr(t), 1, "other"))
        \* lines 222-226: the "(or concurrent)" modifier, matched at i
        Modifier(t, i) ==
            Atom(IF i # 0
                 THEN Strip(Before(t, i)) \o Strip(From(t, OrConcurrentEnd(t, i)))
                 ELSE t,
                 i # 0)
        Stripped(t) ==
            Modifier(t, FirstOrZero({i \in 1..Len(t) : OrConcurrentEnd(t, i) # 0}))
    IN IF text = << >> THEN None
       ELSE Stripped(StripChars(text, {" ", ",", "."}))

\* _parse_or_expression
_parse_or_expression(text) ==
    LET Combine(n_parts, children) ==
            IF n_parts > 1 /\ Len(children) = 1 THEN children[1]
            ELSE IF n_parts > 1 /\ Len(children) > 1 THEN OrNode(children)
            ELSE _parse_atomic(text)
        Children(or_parts) ==
            Combine(Len(or_parts),
                    Surviving([i \in 1..Len(or_parts) |->
                                  _parse_atomic(Strip(or_parts[i]))]))
    IN IF text = << >> THEN None
       ELSE Children(SplitOnWord(text, LitOr))

\* the top-level split made on 'or' in the place of 'and'
SplitOnOr(text) == SplitOnWord(text, LitOr)

\* _split_on_and
_split_on_and(text) ==
    LET Restore(parts) ==
            [i \in 1..Len(parts) |->
                ReplaceAll(parts[i], ConcurrentMark, LitAndConcurrent)]
    IN Restore(SplitOnWord(ProtectAndConcurrent(text), LitAnd))

\* f"~~~GROUP{counter}~~~" (line 274)
Placeholder(counter) == GroupMarkHead \o Decimal(counter) \o GroupMarkTail

\* re.sub(group_pattern, replace_group, text) (lines 271-279): the modified
\* text and, in groups[n + 1], the text that placeholder n stands for
RECURSIVE SubstituteGroups(_, _)
SubstituteGroups(s, counter) ==
    LET Join(i, e, rest) ==
            [text |-> Before(s, i) \o Placeholder(counter) \o rest.text,
             groups |-> <<SubSeq(s, i + 1, e - 2)>> \o rest.groups]
        Cut(i, e) == Join(i, e, SubstituteGroups(From(s, e), counter + 1))
        At(i) ==
            IF i = 0 THEN [text |-> s, groups |-> << >>]
            ELSE Cut(i, GroupPatternEnd(s, i))
    IN At(FirstOrZero({i \in 1..Len(s) : GroupPatternEnd(s, i) # 0}))

RECURSIVE _parse_expression(_)
RECURSIVE _parse_with_groups(_)
RECURSIVE _replace_placeholders(_, _)

\* _replace_placeholders; placeholder_map is the sequence groups
_replace_placeholders(node, groups) ==
    LET Wrap(inner) ==
            IF IsError(inner) THEN RecursionError ELSE GroupNode(inner)
        \* lines 299-305; keys holds the counter of the placeholder, if any
        Course(keys) ==
            IF StartsWith(node.course_code, GroupMarkHead) /\ keys # {}
            THEN Wrap(_parse_expression(groups[MinOf(keys) + 1]))
            ELSE node
        \* lines 308-314
        Children(replaced) ==
            IF \E i \in 1..Len(replaced) : IsError(replaced[i])
            THEN RecursionError
            ELSE [node EXCEPT !.children = Surviving(replaced)]
        \* lines 316-318
        Group(inner) ==
            IF IsError(inner) THEN RecursionError
            ELSE [node EXCEPT !.expression = inner]
    IN IF node = None THEN None
       ELSE IF node.type = "course"
       THEN Course({n \in 0..(Len(groups) - 1) :
                       Placeholder(n) = node.course_code})
       ELSE IF node.type \in {"and", "or"}
       THEN Children([i \in 1..Len(node.children) |->
                         _replace_placeholders(node.children[i], groups)])
       ELSE IF node.type = "group"
       THEN Group(_replace_placeholders(node.expression, groups))
       ELSE node

\* _parse_with_groups.  When the text holds no match of group_pattern the
\* modified text is the text itself, which still holds '(' and ')':
\* _parse_expression and _parse_with_groups call each other without end and
\* Python raises RecursionError.
_parse_with_groups(text) ==
    LET Replace(result, groups) ==
            IF IsError(result) THEN RecursionError
            ELSE _replace_placeholders(result, groups)
        Modified(sub) ==
            IF sub.groups = << >> THEN RecursionError
            ELSE Replace(_parse_expression(sub.text), sub.groups)
    IN Modified(SubstituteGroups(text, 0))

\* _parse_expression
_parse_expression(text) ==
    LET \* lines 163-176
        Combine(t, n_parts, children) ==
            IF n_parts > 1 /\ Len(children) = 1 THEN children[1]
            ELSE IF n_parts > 1 /\ Len(children) > 1 THEN AndNode(children)
            ELSE _parse_or_expression(t)
        Children(t, and_parts) ==
            Combine(t, Len(and_parts),
                    Surviving([i \in 1..Len(and_parts) |->
                                  _parse_or_expression(Strip(and_parts[i]))]))
        \* lines 156-161
        Stripped(t) ==
            IF (\E i \in 1..Len(t) : t[i] = "(")
                 /\ (\E i \in 1..Len(t) : t[i] = ")")
            THEN _parse_with_groups(t)
            ELSE Children(t, _split_on_and(t))
    IN IF text = << >> THEN None
       ELSE Stripped(StripPrerequisiteLabel(
                         StripPreRequisitesLabel(Strip(text))))

\* lines 121-124: the note of a concurrent text
ConcurrentNote(text) ==
    LET Group(g) == Strip(SubSeq(text, g[1], g[2]))
        At(i) == IF i = 0 THEN << >> ELSE Group(ForNoteGroup(text, i))
    IN IF Contains(LowerStr(text), LitFor)
       THEN At(FirstOrZero({i \in 1..Len(text) :
                               ForNoteGroup(text, i) # << >>}))
       ELSE << >>

\* _parse_concurrent
_parse_concurrent(text) ==
    LET Node(courses, note) ==
            IF Len(courses) > 1
            THEN ConcurrentNode(
                     OrNode([i \in 1..Len(courses) |->
                                ConcurrentCourseNode(RemoveSpaces(courses[i]))]),
                     note)
            ELSE IF Len(courses) = 1
            THEN ConcurrentNode(
                     ConcurrentCourseNode(RemoveSpaces(courses[1])), note)
            ELSE None
    IN IF text = << >> THEN None
       ELSE Node(CourseFindAll(text), ConcurrentNote(text))

\* _split_prereq_and_concurrent: the pair (prereq_node, concurrent_node), or
\* RecursionError when _parse_expression raises
_split_prereq_and_concurrent(text) ==
    LET Pair(prereq_node, concurrent_node) ==
            IF IsError(prereq_node) THEN RecursionError
            ELSE [type |-> "pair", prereq |-> prereq_node,
                  concurrent |-> concurrent_node]
        \* lines 99-109; m is the start of the transition phrase, or 0
        Split(m) ==
            IF m # 0
            THEN Pair(_parse_expression(Strip(Before(text, m))),
                      _parse_concurrent(Strip(From(text, TransitionEnd(text, m)))))
            ELSE Pair(_parse_expression(text), None)
        \* lines 86-90
        Lowered(text_lower) ==
            IF \/ StartsWith(text_lower, LitConcurrent)
               \/ StartsWith(text_lower, LitPrereqConcurrent)
            THEN Pair(None, _parse_concurrent(text))
            ELSE Split(TransitionSearch(text))
    IN IF text = << >> THEN Pair(None, None)
       ELSE Lowered(LowerStr(text))

\* parse with the concurrent label appended to raw_text whether or not the
\* concurrent field is empty, and without the early return of lines 47-52
ParseAlwaysLabels(prerequisites_text, concurrent_text) ==
    LET Merge(full_text, split, concurrent_from_field) ==
            IF IsError(split) THEN RecursionError
            ELSE [type |-> "ast",
                  prerequisites |-> split.prereq,
                  corequisites |->
                      IF concurrent_text # << >> /\ concurrent_from_field # None
                      THEN IF split.concurrent # None
                           THEN AndNode(<<split.concurrent,
                                          concurrent_from_field>>)
                           ELSE concurrent_from_field
                      ELSE split.concurrent,
                  raw_text |->
                      full_text \o ConcurrentFieldLabel \o concurrent_text]
        Full(full_text) ==
            Merge(full_text, _split_prereq_and_concurrent(full_text),
                  _parse_concurrent(concurrent_text))
    IN Full(Strip(prerequisites_text))

\* PrerequisiteParser.parse: the PrerequisiteAST dictionary, or
\* RecursionError when the parse raises
parse(prerequisites_text, concurrent_text) ==
    LET \* lines 62-79
        Merge(full_text, split, concurrent_from_field) ==
            IF IsError(split) THEN RecursionError
            ELSE [type |-> "ast",
                  prerequisites |-> split.prereq,
                  corequisites |->
                      IF concurrent_text # << >> /\ concurrent_from_field # None
                      THEN IF split.concurrent # None
                           THEN AndNode(<<split.concurrent,
                                          concurrent_from_field>>)
                           ELSE concurrent_from_field
                      ELSE split.concurrent,
                  raw_text |->
                      IF concurrent_text # << >>
                      THEN full_text \o ConcurrentFieldLabel \o concurrent_text
                      ELSE full_text]
        \* lines 55-59
        Full(full_text) ==
            Merge(full_text, _split_prereq_and_concurrent(full_text),
                  _parse_concurrent(concurrent_text))
    IN IF prerequisites_text = << >> /\ concurrent_text = << >>
       THEN [type |-> "ast", prerequisites |-> None, corequisites |-> None,
             raw_text |-> << >>]
       ELSE Full(Strip(prerequisites_text))

\* ------------------------------------------------------------------------
\* Inputs: catalog texts, written as a sequence of pieces (fragments joined
\* by the connectives " and " and " or "); the text is their concatenation
\* ------------------------------------------------------------------------

\* the most fragments in one prerequisite text
MaxFrags == 3

Fragments ==
    {"A", "B", "Amod", "Atab", "Senior", "SeniorAppr", "xy", "ConcWith",
     "PrereqConc", "MustWith", "GrpOr", "GrpEmpty"}

Connectives == {"and", "or"}

\* the characters of a piece
PieceText(p) ==
    CASE p = "A" -> <<"C","S","C","E"," ","1","0","0","1">>
      [] p = "B" -> <<"C","S","C","E"," ","1","1","0","1">>
      [] p = "Amod" ->
           <<"C","S","C","E"," ","1","0","0","1"," ",
             "(","o","r"," ","c","o","n","c","u","r","r","e","n","t",")">>
      [] p = "Atab" -> <<"C","S","C","E","\t","1","0","0","1">>
      [] p = "Senior" ->
           <<"S","e","n","i","o","r"," ","s","t","a","n","d","i","n","g">>
      [] p = "SeniorAppr" ->
           <<"S","e","n","i","o","r"," ","s","t","a","n","d","i","n","g"," ",
             "w","i","t","h"," ","i","n","s","t","r","u","c","t","o","r"," ",
             "a","p","p","r","o","v","a","l">>
      [] p = "xy" -> <<"x","y">>
      [] p = "ConcWith" ->
           <<"c","o","n","c","u","r","r","e","n","t"," ","w","i","t","h"," ",
             "C","S","C","E"," ","4","3","0","1">>
      [] p = "PrereqConc" ->
           <<"P","r","e","r","e","q","u","i","s","i","t","e",":"," ",
             "c","o","n","c","u","r","r","e","n","t"," ","w","i","t","h"," ",
             "C","S","C","E"," ","4","3","0","1">>
      [] p = "MustWith" ->
           <<"M","u","s","t"," ","b","e"," ","t","a","k","e","n"," ",
             "c","o","n","c","u","r","r","e","n","t","l","y"," ","w","i","t","h",
             " ","C","S","C","E"," ","4","3","0","1">>
      [] p = "GrpOr" ->
           <<"(","C","S","C","E"," ","1","1","0","1"," ","o","r"," ",
             "C","S","C","E"," ","2","3","0","3",")">>
      [] p = "GrpEmpty" -> <<"(",")">>
      [] p = "and" -> <<" ","a","n","d"," ">>
      [] p = "or" -> <<" ","o","r"," ">>

\* the text a sequence of pieces spells
RECURSIVE TextOf(_)
TextOf(pieces) ==
    IF pieces = << >> THEN << >>
    ELSE PieceText(Head(pieces)) \o TextOf(Tail(pieces))

\* the piece sequences of exactly n fragments
RECURSIVE PiecesOf(_)
PiecesOf(n) ==
    IF n = 1 THEN {<<f>> : f \in Fragments}
    ELSE {s \o <<c, f>> : s \in PiecesOf(n - 1), c \in Connectives,
                          f \in Fragments}

\* every input text of the parser, the empty text included
Inputs == {<< >>} \cup UNION {PiecesOf(n) : n \in 1..MaxFrags}

\* the text "CSCE 4301"
Text4301 == <<"C","S","C","E"," ","4","3","0","1">>

\* the values of the separate concurrent field
ConcurrentFields == {<< >>, Text4301}

\* ------------------------------------------------------------------------
\* State
\* ------------------------------------------------------------------------

VARIABLES
    pieces,              \* the pieces the prerequisite text was written from
    prerequisites_text,  \* the argument prerequisites_text / text
    concurrent_text,     \* the argument concurrent_text
    op,                  \* the function applied: "parse", "_parse_expression",
                         \* "_parse_concurrent", or "none" before the call
    pc,                  \* "ready", "returned" or "raised"
    result,              \* the value returned (None before the call)
    catalog,             \* what each record of the catalog was written from
    all_courses_json,    \* the records in the file all_courses.json
    backup_file,         \* the records in all_courses.json.backup
    response,            \* the local response of parse_all_courses.main
    final_all_courses_json, \* the records in final_all_courses.json
    stage,               \* the point the two batch scripts have reached
    courses,             \* the list courses of the running script
    parsed_courses,      \* the list parsed_courses of parse_all_courses.main
    prereq_text,         \* the local prereq_text of parse_all_courses.main
    prereq_reverse_map,  \* the dictionary prereq_reverse_map
    coreq_reverse_map,   \* the dictionary coreq_reverse_map
    enhanced_courses,    \* the list enhanced_courses
    final_backup_file,   \* the records in final_all_courses.json.backup
    updated_courses      \* the list updated_courses of add_course_metadata.main

parser_vars == <<pieces, prerequisites_text, concurrent_text, op, pc, result>>

batch_vars ==
    <<catalog, all_courses_json, backup_file, response,
      final_all_courses_json, stage, courses, parsed_courses, prereq_text,
      prereq_reverse_map, coreq_reverse_map, enhanced_courses,
      final_backup_file, updated_courses>>

\* the state only add_course_metadata.main changes
metadata_vars == <<final_backup_file, updated_courses>>

vars == <<parser_vars, batch_vars>>

\* ------------------------------------------------------------------------
\* The parser applied to one input (SpecParser)
\* ------------------------------------------------------------------------

\* a local variable no value was assigned to yet
Unbound == <<"unbound">>

\* no batch script runs
BatchIdle ==
    /\ catalog = << >>
    /\ all_courses_json = << >>
    /\ backup_file = << >>
    /\ response = Unbound
    /\ prereq_text = Unbound
    /\ final_all_courses_json = << >>
    /\ stage = "idle"
    /\ courses = << >>
    /\ parsed_courses = << >>
    /\ prereq_reverse_map = << >>
    /\ coreq_reverse_map = << >>
    /\ enhanced_courses = << >>
    /\ final_backup_file = << >>
    /\ updated_courses = << >>

InitParser ==
    /\ pieces \in Inputs
    /\ prerequisites_text = TextOf(pieces)
    /\ concurrent_text \in ConcurrentFields
    /\ op = "none"
    /\ pc = "ready"
    /\ result = None
    /\ BatchIdle

\* parse applied to the two texts: it returns the AST dictionary, or the
\* RecursionError of _parse_expression propagates to the caller (line 59)
CallParse ==
    /\ pc = "ready"
    /\ op' = "parse"
    /\ result' = parse(prerequisites_text, concurrent_text)
    /\ pc' = IF IsError(result') THEN "raised" ELSE "returned"
    /\ UNCHANGED <<pieces, prerequisites_text, concurrent_text, batch_vars>>

\* _parse_expression applied to the text
CallParseExpression ==
    /\ pc = "ready"
    /\ concurrent_text = << >>
    /\ op' = "_parse_expression"
    /\ result' = _parse_expression(prerequisites_text)
    /\ pc' = IF IsError(result') THEN "raised" ELSE "returned"
    /\ UNCHANGED <<pieces, prerequisites_text, concurrent_text, batch_vars>>

\* _parse_concurrent applied to the text
CallParseConcurrent ==
    /\ pc = "ready"
    /\ concurrent_text = << >>
    /\ op' = "_parse_concurrent"
    /\ result' = _parse_concurrent(prerequisites_text)
    /\ pc' = "returned"
    /\ UNCHANGED <<pieces, prerequisites_text, concurrent_text, batch_vars>>

NextParser ==
    \/ CallParse
    \/ CallParseExpression
    \/ CallParseConcurrent

SpecParser == InitParser /\ [][NextParser]_vars

\* ------------------------------------------------------------------------
\* What an input says, read off its pieces (independent of the parser)
\* ------------------------------------------------------------------------

Code1001 == <<"C","S","C","E","1","0","0","1">>
Code1101 == <<"C","S","C","E","1","1","0","1">>
Code2303 == <<"C","S","C","E","2","3","0","3">>
Code4301 == <<"C","S","C","E","4","3","0","1">>
\* "CSCE\t1001" with its spaces removed: the tab stays
CodeTab1001 == <<"C","S","C","E","\t","1","0","0","1">>

\* the course codes a fragment writes, left to right, spaces removed
FragCodes(f) ==
    CASE f \in {"A", "Amod"} -> <<Code1001>>
      [] f = "B" -> <<Code1101>>
      [] f = "Atab" -> <<CodeTab1001>>
      [] f \in {"ConcWith", "PrereqConc", "MustWith"} -> <<Code4301>>
      [] f = "GrpOr" -> <<Code1101, Code2303>>
      [] OTHER -> << >>

\* the course codes a sequence of pieces writes, left to right
RECURSIVE PieceCodes(_)
PieceCodes(ps) ==
    IF ps = << >> THEN << >>
    ELSE FragCodes(Head(ps)) \o PieceCodes(Tail(ps))

NumFrags == (Len(pieces) + 1) \div 2
FragAt(k) == pieces[2 * k - 1]
\* the connective written before fragment k (k >= 2)
ConnBefore(k) == pieces[2 * k - 2]
FragSet == {FragAt(k) : k \in 1..NumFrags}
ConnSet == {ConnBefore(k) : k \in 2..NumFrags}

\* the text opens with a phrase that makes the whole of it a corequisite
ConcurrentOnly == pieces # << >> /\ FragAt(1) \in {"ConcWith", "PrereqConc"}

\* the fragments that open with a transition phrase: "concurrent with"
\* after the connective "and", or "Must be taken concurrently with"
TransitionFrags ==
    {k \in 2..NumFrags : ConnBefore(k) = "and" /\ FragAt(k) = "ConcWith"}
        \cup {k \in 1..NumFrags : FragAt(k) = "MustWith"}

HasTransition == ~ConcurrentOnly /\ TransitionFrags # {}

FirstTransition == CHOOSE k \in TransitionFrags : \A j \in TransitionFrags : k <= j

\* the pieces before the transition phrase, and those from it onwards
BeforePieces ==
    IF FragAt(FirstTransition) = "MustWith"
    THEN SubSeq(pieces, 1, 2 * FirstTransition - 2)
    ELSE SubSeq(pieces, 1, 2 * FirstTransition - 3)
AfterPieces == SubSeq(pieces, 2 * FirstTransition - 1, Len(pieces))

\* the Concurrent node over a list of codes: nothing, a Course, or an Or of
\* Courses in the order written, duplicates kept
ConcurrentOver(codes) ==
    IF codes = << >> THEN None
    ELSE IF Len(codes) = 1
         THEN ConcurrentNode(ConcurrentCourseNode(codes[1]), << >>)
         ELSE ConcurrentNode(
                  OrNode([i \in 1..Len(codes) |-> ConcurrentCourseNode(codes[i])]),
                  << >>)

\* the codes the main text contributes to the corequisites
MainConcurrentCodes ==
    IF ConcurrentOnly THEN PieceCodes(pieces)
    ELSE IF HasTransition THEN PieceCodes(AfterPieces)
    ELSE << >>

\* the corequisites the two sources give: M from the main text, F from the field
MainConcurrent == ConcurrentOver(MainConcurrentCodes)
FieldConcurrent ==
    IF concurrent_text = << >> THEN None ELSE ConcurrentOver(<<Code4301>>)

Merged(M, F) ==
    IF M # None /\ F # None THEN [type |-> "and", children |-> <<M, F>>]
    ELSE IF M # None THEN M ELSE F

\* the course leaves of a tree, left to right
RECURSIVE CourseLeaves(_)
CourseLeaves(n) ==
    LET RECURSIVE Over(_)
        Over(cs) ==
            IF cs = << >> THEN << >>
            ELSE CourseLeaves(Head(cs)) \o Over(Tail(cs))
    IN CASE n.type = "course" -> <<n>>
         [] n.type \in {"and", "or"} -> Over(n.children)
         [] n.type = "group" -> CourseLeaves(n.expression)
         [] n.type = "concurrent" -> CourseLeaves(n.course)
         [] OTHER -> << >>

TreeCodes(n) ==
    {CourseLeaves(n)[i].course_code : i \in 1..Len(CourseLeaves(n))}

\* every leaf of the tree is a text condition
RECURSIVE OnlyTextConditions(_)
OnlyTextConditions(n) ==
    CASE n.type = "text_condition" -> TRUE
      [] n.type \in {"and", "or"} ->
            \A i \in 1..Len(n.children) : OnlyTextConditions(n.children[i])
      [] n.type = "group" -> OnlyTextConditions(n.expression)
      [] OTHER -> FALSE

RECURSIVE ContainsAnd(_)
ContainsAnd(n) ==
    CASE n.type = "and" -> TRUE
      [] n.type = "or" -> \E i \in 1..Len(n.children) : ContainsAnd(n.children[i])
      [] n.type = "group" -> ContainsAnd(n.expression)
      [] OTHER -> FALSE

RECURSIVE NoAndBeneathOr(_)
NoAndBeneathOr(n) ==
    CASE n.type = "or" -> \A i \in 1..Len(n.children) : ~ContainsAnd(n.children[i])
      [] n.type = "and" ->
            \A i \in 1..Len(n.children) : NoAndBeneathOr(n.children[i])
      [] n.type = "group" -> NoAndBeneathOr(n.expression)
      [] OTHER -> TRUE

\* an expression was parsed and a tree came back
ExpressionReturned ==
    /\ op \in {"parse", "_parse_expression"}
    /\ pc = "returned"

\* the prerequisite tree of the call that returned
Tree == IF op = "parse" THEN result.prerequisites ELSE result

\* the Course leaf a plain fragment stands for
LeafOf(f) == CourseNode(FragCodes(f)[1], FALSE)

\* ------------------------------------------------------------------------
\* Claims about PrerequisiteParser (specification SpecParser)
\* ------------------------------------------------------------------------

\* C1: a parenthesised span of the text appears in the returned tree as a
\* Group node wrapping the parse of the span's contents: parsing
\* "<course> and (CSCE 1101 or CSCE 2303)" gives
\* And[Course, Group[Or[Course CSCE1101, Course CSCE2303]]].
C1_GroupBecomesGroupNode ==
    (/\ op = "parse" /\ pc # "ready"
     /\ Len(pieces) = 3
     /\ pieces[1] \in {"A", "B"} /\ pieces[2] = "and" /\ pieces[3] = "GrpOr")
    => /\ pc = "returned"
       /\ result.prerequisites =
            AndNode(<<LeafOf(pieces[1]),
                      GroupNode(OrNode(<<CourseNode(Code1101, FALSE),
                                         CourseNode(Code2303, FALSE)>>))>>)

\* C3: a course written with an inline "(or concurrent)" modifier parses to a
\* Course leaf whose is_concurrent is true, and a course written without it
\* to a leaf whose is_concurrent is false.
C3_InlineModifierSetsIsConcurrent ==
    (/\ op = "parse" /\ pc # "ready"
     /\ Len(pieces) = 1 /\ pieces[1] \in {"A", "B", "Amod"})
    => /\ pc = "returned"
       /\ result.prerequisites =
            CourseNode(FragCodes(pieces[1])[1], pieces[1] = "Amod")

\* C4: 'and' binds looser than 'or': "x or y and z" parses to
\* And[Or[x, y], z], and no tree parsed from a text without parentheses has
\* an And node beneath an Or node.
C4_AndSplitsBeforeOr ==
    ExpressionReturned =>
        /\ (/\ Len(pieces) = 5
            /\ FragSet \subseteq {"A", "B"}
            /\ pieces[2] = "or" /\ pieces[4] = "and")
           => Tree = [type |-> "and", children |->
                        <<[type |-> "or", children |->
                             <<LeafOf(pieces[1]), LeafOf(pieces[3])>>],
                          LeafOf(pieces[5])>>]
        /\ (FragSet \cap {"Amod", "GrpOr", "GrpEmpty"} = {})
           => NoAndBeneathOr(Tree)

\* parse of "CSCE 1001 or CSCE 1101 and CSCE 1001" returned an And over an Or
C4_Witness ==
    /\ op = "_parse_expression" /\ pc = "returned"
    /\ pieces = <<"A", "or", "B", "and", "A">>
    /\ result.type = "and"
    /\ result.children[1].type = "or"

\* C5: k >= 2 course codes joined only by 'and' parse to one And node with k
\* Course children in the order written, and joined only by 'or' to one Or
\* node with k Course children; a code written twice gives two children.
C5_FlatChains ==
    (/\ ExpressionReturned
     /\ NumFrags >= 2
     /\ FragSet \subseteq {"A", "B"}
     /\ Cardinality(ConnSet) = 1)
    => Tree = [type |-> IF ConnSet = {"and"} THEN "and" ELSE "or",
               children |-> [k \in 1..NumFrags |-> LeafOf(FragAt(k))]]

\* a chain of three codes, one written twice, returned three children
C5_Witness ==
    /\ op = "parse" /\ pc = "returned"
    /\ pieces = <<"A", "and", "A", "and", "B">>
    /\ Len(result.prerequisites.children) = 3
    /\ result.prerequisites.children[1] = result.prerequisites.children[2]

\* C6: a text with a prerequisite part followed by "and concurrent with ..."
\* is cut at the first such phrase: the part before it is parsed as the
\* prerequisites, the part after it as the corequisites, and no code written
\* after the phrase appears among the prerequisites.
C6_TransitionSplits ==
    (op = "parse" /\ pc # "ready" /\ HasTransition) =>
        IF IsError(_parse_expression(TextOf(BeforePieces)))
        THEN pc = "raised"
        ELSE /\ pc = "returned"
             /\ result.prerequisites = _parse_expression(TextOf(BeforePieces))
             /\ TreeCodes(result.prerequisites) \subseteq
                    {PieceCodes(BeforePieces)[i] :
                        i \in 1..Len(PieceCodes(BeforePieces))}
             /\ result.corequisites =
                    Merged(ConcurrentOver(PieceCodes(AfterPieces)), FieldConcurrent)
             /\ (pieces = <<"Senior", "and", "ConcWith">> /\ concurrent_text = << >>)
                => /\ result.prerequisites.type = "text_condition"
                   /\ result.prerequisites.category = "standing"
                   /\ result.corequisites =
                        ConcurrentNode(ConcurrentCourseNode(Code4301), << >>)

\* a text cut at "and concurrent with": one prerequisite, two corequisites
C6_Witness ==
    /\ op = "parse" /\ pc = "returned"
    /\ pieces = <<"A", "and", "ConcWith", "or", "B">>
    /\ concurrent_text = << >>
    /\ result.prerequisites = LeafOf("A")
    /\ result.corequisites.type = "concurrent"
    /\ Len(result.corequisites.course.children) = 2

\* C7: a text that opens with a concurrent-only phrase has no prerequisite
\* part: parse returns prerequisites None and every code of the text, in the
\* order written, is a corequisite.
C7_ConcurrentOnly ==
    (op = "parse" /\ pc # "ready" /\ ConcurrentOnly) =>
        /\ pc = "returned"
        /\ result.prerequisites = None
        /\ result.corequisites =
              Merged(ConcurrentOver(PieceCodes(pieces)), FieldConcurrent)

\* a concurrent-only text that goes on with further clauses returned
C7_Witness ==
    /\ op = "parse" /\ pc = "returned"
    /\ pieces = <<"PrereqConc", "and", "A", "or", "GrpEmpty">>
    /\ result.prerequisites = None
    /\ result.corequisites.type = "concurrent"

\* C8: _parse_concurrent returns None for a text without a course code, a
\* Concurrent node over one Course for a text with one code, and a Concurrent
\* node over an Or of all the codes in the order written otherwise, whatever
\* connective the text writes between them.
C8_ConcurrentCodes ==
    (op = "_parse_concurrent" /\ pc = "returned") =>
        LET codes == PieceCodes(pieces)
        IN IF codes = << >> THEN result = None
           ELSE /\ result.type = "concurrent"
                /\ result.course =
                     IF Len(codes) = 1 THEN ConcurrentCourseNode(codes[1])
                     ELSE [type |-> "or", children |->
                             [i \in 1..Len(codes) |-> ConcurrentCourseNode(codes[i])]]

\* three code occurrences joined by 'and' came back as an Or of three
C8_Witness ==
    /\ op = "_parse_concurrent" /\ pc = "returned"
    /\ pieces = <<"A", "and", "B", "and", "A">>
    /\ result.course.type = "or"
    /\ Len(result.course.children) = 3

\* C9: the corequisites of the result merge the node M of the main text with
\* the node F of the concurrent field: And[M, F] when both exist (also when
\* they name the same course), the one that exists when only one does, and
\* None when neither does.
C9_CorequisitesMerged ==
    (/\ op = "parse" /\ pc = "returned")
    => /\ result.corequisites = Merged(MainConcurrent, FieldConcurrent)
       /\ (MainConcurrent # None /\ FieldConcurrent # None)
          => /\ result.corequisites.type = "and"
             /\ result.corequisites.children = <<MainConcurrent, FieldConcurrent>>

\* the main text and the field name the same course: And of two equal nodes
C9_Witness ==
    /\ op = "parse" /\ pc = "returned"
    /\ pieces = <<"A", "and", "ConcWith">>
    /\ concurrent_text = Text4301
    /\ result.corequisites.type = "and"
    /\ result.corequisites.children[1] = result.corequisites.children[2]

\* the length of the text once a leading label and the surrounding
\* whitespace, commas and periods are removed
CoreLen ==
    Len(StripChars(
            StripPrerequisiteLabel(StripPreRequisitesLabel(Strip(prerequisites_text))),
            {" ", ",", "."}))

\* C10 as written: for a non-empty text parse returns a result whose
\* prerequisites and corequisites are not both None.
C10_NeverBothNone ==
    (/\ op = "parse" /\ pc = "returned"
     /\ prerequisites_text # << >>)
    => ~(result.prerequisites = None /\ result.corequisites = None)

\* C10 amended: for a non-empty text without parentheses and without a
\* concurrent part, parse returns prerequisites that are not None provided
\* the text writes a course code or a recognised phrase or is longer than 5
\* characters; a text without a course code is then kept as text
\* conditions, and a text of at most 5 characters with neither a code nor a
\* recognised phrase is dropped.
C10_ShortFragmentsDropped ==
    (/\ op = "parse" /\ pc # "ready"
     /\ pieces # << >>
     /\ FragSet \cap {"Amod", "GrpOr", "GrpEmpty"} = {}
     /\ ~ConcurrentOnly /\ ~HasTransition)
    => /\ pc = "returned"
       /\ (\/ PieceCodes(pieces) # << >>
           \/ "Senior" \in FragSet
           \/ CoreLen > MinConditionLen)
          => result.prerequisites # None
       /\ (PieceCodes(pieces) = << >> /\ result.prerequisites # None)
          => OnlyTextConditions(result.prerequisites)
       /\ (/\ PieceCodes(pieces) = << >>
           /\ "Senior" \notin FragSet
           /\ CoreLen <= MinConditionLen)
          => result.prerequisites = None

\* a text without a course code, 9 characters long, kept as a TextCondition
C10_Witness ==
    /\ op = "parse" /\ pc = "returned"
    /\ pieces = <<"xy", "and", "xy">>
    /\ result.prerequisites.type = "text_condition"
    /\ Len(result.prerequisites.condition) = 9

\* ------------------------------------------------------------------------
\* add_reverse_prerequisites.py: the graph builder
\* ------------------------------------------------------------------------

UpperSeq ==
    <<"A","B","C","D","E","F","G","H","I","J","K","L","M",
      "N","O","P","Q","R","S","T","U","V","W","X","Y","Z">>

\* the characters a course code can hold, in code-point order
CharOrder == <<"\t", " ">> \o DigitSeq \o UpperSeq

OrdOf(c) == CHOOSE i \in 1..Len(CharOrder) : CharOrder[i] = c

\* a < b on Python strings
RECURSIVE StrLess(_, _)
StrLess(a, b) ==
    IF a = << >> THEN b # << >>
    ELSE IF b = << >> THEN FALSE
    ELSE IF a[1] = b[1] THEN StrLess(Tail(a), Tail(b))
    ELSE OrdOf(a[1]) < OrdOf(b[1])

\* list(S) in descending order
RECURSIVE ListedDescending(_)
ListedDescending(S) ==
    IF S = {} THEN << >>
    ELSE LET greatest == CHOOSE x \in S : \A y \in S \ {x} : StrLess(y, x)
         IN <<greatest>> \o ListedDescending(S \ {greatest})

\* sorted(list(S)) for a set S of strings
RECURSIVE Sorted(_)
Sorted(S) ==
    IF S = {} THEN << >>
    ELSE LET least == CHOOSE x \in S : \A y \in S \ {x} : StrLess(x, y)
         IN <<least>> \o Sorted(S \ {least})

\* dict.get(key, default)
Get(d, key, default) == IF key \in DOMAIN d THEN d[key] ELSE default

\* a dictionary holding nothing but key
PutAlone(d, key, value) == [k \in {key} |-> value]

\* d[key] = value
Put(d, key, value) ==
    [k \in DOMAIN d \cup {key} |-> IF k = key THEN value ELSE d[k]]

\* ([A-Z]{4})\s*(\d{4}) at position i of the title
TitlePatternAt(title, i) ==
    /\ i + 3 <= Len(title)
    /\ \A k \in 0..3 : IsUpper(title[i + k])
    /\ LET Digits(j) == j + 3 <= Len(title) /\ \A k \in 0..3 : IsDigit(title[j + k])
       IN Digits(SkipWs(title, i + 4))

\* extract_course_code_from_title: group 1 and group 2 of the leftmost
\* match, joined; "" when the title holds no match
extract_course_code_from_title(title) ==
    LET At(i) ==
            IF i = 0 THEN << >>
            ELSE LET Group2(j) == SubSeq(title, j, j + 3)
                 IN SubSeq(title, i, i + 3) \o Group2(SkipWs(title, i + 4))
    IN At(FirstOrZero({i \in 1..Len(title) : TitlePatternAt(title, i)}))

\* the walk descending into Concurrent wrappers in both directions
RECURSIVE WalkIntoConcurrent(_, _)
WalkIntoConcurrent(node, include_corequisites) ==
    IF node = None THEN {}
    ELSE CASE node.type = "course" -> {Get(node, "course_code", << >>)}
           [] node.type \in {"and", "or"} ->
                UNION {WalkIntoConcurrent(node.children[i], include_corequisites) :
                          i \in 1..Len(node.children)}
           [] node.type = "group" ->
                WalkIntoConcurrent(node.expression, include_corequisites)
           [] node.type = "concurrent" ->
                IF node.course # None
                THEN WalkIntoConcurrent(node.course, include_corequisites)
                ELSE {}
           [] OTHER -> {}

\* get_all_prerequisite_courses
RECURSIVE get_all_prerequisite_courses(_, _)
get_all_prerequisite_courses(node, include_corequisites) ==
    IF node = None THEN {}
    ELSE CASE node.type = "course" -> {Get(node, "course_code", << >>)}
           [] node.type \in {"and", "or"} ->
                UNION {get_all_prerequisite_courses(node.children[i],
                                                    include_corequisites) :
                          i \in 1..Len(node.children)}
           [] node.type = "group" ->
                get_all_prerequisite_courses(node.expression, include_corequisites)
           [] node.type = "concurrent" ->
                IF include_corequisites /\ node.course # None
                THEN get_all_prerequisite_courses(node.course, include_corequisites)
                ELSE {}
           [] OTHER -> {}

\* reverse_map[key] = {code} for every key of keys: the last course that
\* names a key replaces the courses before it
AddEdgesLastWins(reverse_map, keys, code) ==
    [k \in DOMAIN reverse_map \cup keys |->
        IF k \in keys THEN {code} ELSE reverse_map[k]]

\* the dictionary with the keys added to reverse_map[code]: the edges kept
\* in the direction they are written
AddEdgesForward(reverse_map, keys, code) ==
    [k \in DOMAIN reverse_map \cup {code} |->
        (IF k \in DOMAIN reverse_map THEN reverse_map[k] ELSE {})
            \cup (IF k = code THEN keys ELSE {})]

\* the dictionary with code added to reverse_map[key] for every key of keys
AddEdges(reverse_map, keys, code) ==
    [k \in DOMAIN reverse_map \cup keys |->
        (IF k \in DOMAIN reverse_map THEN reverse_map[k] ELSE {})
            \cup (IF k \in keys THEN {code} ELSE {})]

\* the loop body without the check of the course code (lines 86-87, 120-121)
CourseEdgesUnchecked(reverse_map, course, field, include_corequisites) ==
    AddEdges(reverse_map,
             {c \in get_all_prerequisite_courses(
                        Get(Get(course, "prerequisite_ast", << >>), field, None),
                        include_corequisites) : c # << >>},
             extract_course_code_from_title(Get(course, "title", << >>)))

\* the loop body shared by the two builders: the edges one course adds for
\* the tree under the AST key field
CourseEdges(reverse_map, course, field, include_corequisites) ==
    LET From_(course_code) ==
            IF course_code = << >> THEN reverse_map
            ELSE AddEdges(
                     reverse_map,
                     {c \in get_all_prerequisite_courses(
                                Get(Get(course, "prerequisite_ast", << >>), field, None),
                                include_corequisites) : c # << >>},
                     course_code)
    IN From_(extract_course_code_from_title(Get(course, "title", << >>)))

\* the prerequisite map built from the corequisites trees
PrerequisiteMapOfCorequisites(cs) ==
    LET RECURSIVE Fold(_, _)
        Fold(i, reverse_map) ==
            IF i > Len(cs) THEN reverse_map
            ELSE Fold(i + 1, CourseEdges(reverse_map, cs[i], "corequisites", TRUE))
    IN Fold(1, << >>)

\* build_reverse_prerequisite_map
build_reverse_prerequisite_map(cs) ==
    LET RECURSIVE Fold(_, _)
        Fold(i, reverse_map) ==
            IF i > Len(cs) THEN reverse_map
            ELSE Fold(i + 1, CourseEdges(reverse_map, cs[i], "prerequisites", FALSE))
    IN Fold(1, << >>)

\* build_reverse_corequisite_map
build_reverse_corequisite_map(cs) ==
    LET RECURSIVE Fold(_, _)
        Fold(i, reverse_map) ==
            IF i > Len(cs) THEN reverse_map
            ELSE Fold(i + 1, CourseEdges(reverse_map, cs[i], "corequisites", TRUE))
    IN Fold(1, << >>)

\* ------------------------------------------------------------------------
\* The two batch scripts run on a catalog (Spec): parse_all_courses.main
\* rewrites all_courses.json with an AST per record, then
\* add_reverse_prerequisites.main writes final_all_courses.json
\* ------------------------------------------------------------------------

\* the most records in a catalog
MaxCourses == 2

TitleKinds == {"T1001", "T1101", "T2303", "T4301", "TNone", "TSurr"}

\* a lone surrogate, the character json.load reads from the escape \ud83d
Surrogate == "U+D83D"

\* the title of a record
TitleText(t) ==
    CASE t = "T1001" ->
           <<"C","S","C","E"," ","1","0","0","1"," ","-"," ","I","n","t","r","o">>
      [] t = "T1101" -> <<"C","S","C","E"," ","1","1","0","1">>
      [] t = "T2303" -> <<"C","S","C","E"," ","2","3","0","3">>
      [] t = "T4301" -> <<"C","S","C","E","4","3","0","1">>
      [] t = "TNone" -> <<"S","e","m","i","n","a","r">>
      [] t = "TSurr" -> <<"S","e","m","i","n","a","r"," ",Surrogate>>

\* the course code a title carries, "" for none
TitleCode(t) ==
    CASE t = "T1001" -> Code1001
      [] t = "T1101" -> Code1101
      [] t = "T2303" -> Code2303
      [] t = "T4301" -> Code4301
      [] t \in {"TNone", "TSurr"} -> << >>

\* the prerequisite fields of a catalog, as pieces; Null stands for a
\* field that holds the JSON value null
CatalogTexts ==
    {<< >>, <<"A">>, <<"A", "or", "B">>, <<"B", "and", "GrpOr">>,
     <<"Amod">>, <<"Senior", "and", "ConcWith">>, <<"GrpEmpty">>, <<"Null">>}

\* the value json.load gives for null: None, which is no string (written
\* as a sequence whose element is no character)
JsonNull == <<"null">>

CatalogEntries ==
    [title : TitleKinds, pieces : CatalogTexts, concurrent : ConcurrentFields]

Catalogs == UNION {[1..n -> CatalogEntries] : n \in 0..MaxCourses}

\* the record of all_courses.json written from a catalog entry
CourseRecord(e) ==
    [title |-> TitleText(e.title),
     credits |-> <<"3">>,
     prerequisites |-> IF e.pieces = <<"Null">> THEN JsonNull
                       ELSE TextOf(e.pieces),
     concurrent |-> e.concurrent]

\* str(e) of the RecursionError: the interpreter words it by the kind of
\* call the limit was reached in, which changes with the depth of the stack
\* main was started at
RecursionErrorMessage == "maximum recursion depth exceeded"

RecursionErrorMessageInCall ==
    "maximum recursion depth exceeded while calling a Python object"

RecursionErrorMessages == {RecursionErrorMessage, RecursionErrorMessageInCall}

\* str(e) of the AttributeError of None.strip()
AttributeErrorMessage == "'NoneType' object has no attribute 'strip'"

\* the AST stored for a course whose processing raised (lines 408-413)
ErrorAst(raw_text, parse_error) ==
    [type |-> "ast", prerequisites |-> None, corequisites |-> None,
     raw_text |-> raw_text, parse_error |-> parse_error]

\* a string the utf-8 file can take
Encodable(string) == \A k \in 1..Len(string) : string[k] # Surrogate

\* whether print(text) returns: it does for a text stdout can encode; for
\* another text it raises UnicodeEncodeError, unless the error handler
\* stdout was opened with replaces what cannot be encoded
PrintReturns(text) == IF Encodable(text) THEN {TRUE} ELSE BOOLEAN

\* the title of course.get('title', 'Unknown')
TitleOrUnknown(course) ==
    Get(course, "title", <<"U","n","k","n","o","w","n">>)

\* the place of the first record json.dump cannot write to the file, 0 when
\* it can write them all
FirstUnencodable(records) ==
    FirstOrZero({k \in 1..Len(records) :
                    \/ ~Encodable(Get(records[k], "title", << >>))
                    \/ ~Encodable(Get(records[k], "prerequisites", << >>))
                    \/ ~Encodable(Get(records[k], "concurrent", << >>))})

\* no parser call is under observation
ParserIdle ==
    /\ pieces = << >>
    /\ prerequisites_text = << >>
    /\ concurrent_text = << >>
    /\ op = "none"
    /\ pc = "ready"
    /\ result = None

\* a path no file exists at
NoFile == <<[type |-> "no file"]>>

\* a file whose text is no JSON document
NotJson == <<[type |-> "not json"]>>

\* the file json.dump leaves when it raises at record k: the text of the
\* records before k, whole, then the start of record k and no closing
\* bracket, which is no JSON document
Truncated(records, k) == SubSeq(records, 1, k - 1) \o NotJson

\* what the user may type at the prompt 'Continue without backup? (y/n): '
Responses == {<<"y">>, <<"Y">>, <<"n">>, <<"y", "e", "s">>, << >>}

\* the records of all_courses.json before parse_all_courses runs
InputFile == [i \in 1..Len(catalog) |-> CourseRecord(catalog[i])]

Init ==
    /\ ParserIdle
    /\ \/ /\ catalog \in Catalogs
          /\ all_courses_json = InputFile
       \/ /\ catalog = << >>
          /\ all_courses_json \in {NoFile, NotJson}
    /\ backup_file = NoFile
    /\ response = Unbound
    /\ prereq_text = Unbound
    /\ final_all_courses_json = << >>
    /\ stage = "start"
    /\ courses = << >>
    /\ parsed_courses = << >>
    /\ prereq_reverse_map = << >>
    /\ coreq_reverse_map = << >>
    /\ enhanced_courses = << >>
    /\ final_backup_file = NoFile
    /\ updated_courses = << >>

\* parse_all_courses.main up to the loop, going on to the loop after a
\* failed copy whatever the user answers
LoadCoursesWhateverTheAnswer ==
    /\ stage = "start"
    /\ IF all_courses_json = NoFile
       THEN /\ stage' = "not_found"
            /\ UNCHANGED <<courses, parsed_courses, backup_file, response>>
       ELSE IF all_courses_json = NotJson
       THEN /\ stage' = "load_failed"
            /\ UNCHANGED <<courses, parsed_courses, backup_file, response>>
       ELSE /\ courses' = all_courses_json
            /\ parsed_courses' = << >>
            /\ \E copied \in BOOLEAN, answer \in Responses :
                  /\ backup_file' = IF copied THEN all_courses_json
                                    ELSE backup_file
                  /\ response' = IF copied THEN response ELSE answer
                  /\ stage' = "parsing"
    /\ UNCHANGED <<parser_vars, metadata_vars, catalog, all_courses_json,
                   final_all_courses_json, prereq_text, prereq_reverse_map,
                   coreq_reverse_map, enhanced_courses>>

\* parse_all_courses.main up to the loop (lines 330-377): main returns when
\* the file does not exist or cannot be loaded; the file is read and copied
\* to the backup; when the copy fails the user is asked whether to continue
\* without it, and main returns unless the answer, lower-cased, is 'y'
LoadCourses ==
    /\ stage = "start"
    /\ IF all_courses_json = NoFile
       THEN /\ stage' = "not_found"
            /\ UNCHANGED <<courses, parsed_courses, backup_file, response>>
       ELSE IF all_courses_json = NotJson
       THEN /\ stage' = "load_failed"
            /\ UNCHANGED <<courses, parsed_courses, backup_file, response>>
       ELSE /\ courses' = all_courses_json
            /\ parsed_courses' = << >>
            /\ \E copied \in BOOLEAN, answer \in Responses :
                  /\ backup_file' = IF copied THEN all_courses_json
                                    ELSE backup_file
                  /\ response' = IF copied THEN response ELSE answer
                  /\ stage' = IF copied \/ LowerStr(answer) = <<"y">>
                              THEN "parsing" ELSE "aborted"
    /\ UNCHANGED <<parser_vars, metadata_vars, catalog, all_courses_json,
                   final_all_courses_json, prereq_text, prereq_reverse_map,
                   coreq_reverse_map, enhanced_courses>>

\* one iteration of the loop of lines 379-415: the course gets its AST and
\* is appended to parsed_courses; the dictionary updated is the one the
\* list courses holds.  When the try block raised, the handler prints the
\* title and the message (line 406), then stores the error AST (lines
\* 408-414) reading the local prereq_text: when .strip() raised on a field
\* that is no string the local still holds the text of an earlier course.
\* When the print raises, or when prereq_text was never assigned, the
\* handler itself raises and main ends
ParseCourse ==
    /\ stage = "parsing"
    /\ Len(parsed_courses) < Len(courses)
    /\ LET i == Len(parsed_courses) + 1
           field == Get(courses[i], "prerequisites", << >>)
           Step(course) ==
               /\ courses' = [courses EXCEPT ![i] = course]
               /\ parsed_courses' = Append(parsed_courses, course)
               /\ stage' = stage
           Handled(raw_text, parse_error) ==
               \E printed \in PrintReturns(TitleOrUnknown(courses[i])) :
                   IF printed /\ raw_text # Unbound
                   THEN Step(Put(courses[i], "prerequisite_ast",
                                 ErrorAst(raw_text, parse_error)))
                   ELSE /\ stage' = "crashed"
                        /\ UNCHANGED <<courses, parsed_courses>>
           Stored(ast) ==
               IF IsError(ast)
               THEN \E parse_error \in RecursionErrorMessages :
                        Handled(Strip(field), parse_error)
               ELSE Step(Put(courses[i], "prerequisite_ast", ast))
       IN IF field # JsonNull
          THEN /\ prereq_text' = Strip(field)
               /\ Stored(parse(Strip(field),
                               Strip(Get(courses[i], "concurrent", << >>))))
          ELSE /\ prereq_text' = prereq_text
               /\ Handled(prereq_text, AttributeErrorMessage)
    /\ UNCHANGED <<parser_vars, metadata_vars, catalog, all_courses_json,
                   backup_file, response, final_all_courses_json,
                   prereq_reverse_map, coreq_reverse_map, enhanced_courses>>

\* the loop is over: all_courses.json is opened for writing, which empties
\* it, and json.dump writes the records one after the other (lines 419-428);
\* when a record cannot be written the file keeps the text written before
\* it, which is no JSON document, and main returns
SaveParsed ==
    /\ stage = "parsing"
    /\ Len(parsed_courses) = Len(courses)
    /\ LET Written(k) ==
               /\ all_courses_json' =
                      IF k = 0 THEN parsed_courses
                      ELSE Truncated(parsed_courses, k)
               /\ stage' = IF k = 0 THEN "parsed" ELSE "write_failed"
       IN Written(FirstUnencodable(parsed_courses))
    /\ UNCHANGED <<parser_vars, metadata_vars, catalog, backup_file, response,
                   final_all_courses_json, courses, parsed_courses,
                   prereq_text, prereq_reverse_map, coreq_reverse_map,
                   enhanced_courses>>

\* add_reverse_prerequisites.main up to its loop (lines 143-200): the file
\* is read; when no course carries a prerequisite_ast the user is asked
\* whether to continue anyway (lines 168-177); the two reverse maps are
\* built
BuildReverseMaps ==
    /\ stage = "parsed"
    /\ courses' = all_courses_json
    /\ enhanced_courses' = << >>
    /\ LET courses_with_ast ==
               Cardinality({i \in 1..Len(all_courses_json) :
                               "prerequisite_ast" \in DOMAIN all_courses_json[i]})
       IN \E answer \in (IF courses_with_ast = 0 THEN Responses
                         ELSE {Unbound}) :
              /\ response' = answer
              /\ IF answer = Unbound \/ LowerStr(answer) = <<"y">>
                 THEN /\ prereq_reverse_map' =
                             build_reverse_prerequisite_map(all_courses_json)
                      /\ coreq_reverse_map' =
                             build_reverse_corequisite_map(all_courses_json)
                      /\ stage' = "attaching"
                 ELSE /\ stage' = "graph_aborted"
                      /\ UNCHANGED <<prereq_reverse_map, coreq_reverse_map>>
    /\ UNCHANGED <<parser_vars, metadata_vars, catalog, all_courses_json,
                   backup_file, final_all_courses_json, parsed_courses,
                   prereq_text>>

\* one iteration of the loop of lines 202-224: the course gets its two
\* sorted lists and is appended to enhanced_courses
AttachCourse ==
    /\ stage = "attaching"
    /\ Len(enhanced_courses) < Len(courses)
    /\ LET i == Len(enhanced_courses) + 1
           Lists(course_code) ==
               Put(Put(courses[i], "is_prerequisite_for",
                       Sorted(Get(prereq_reverse_map, course_code, {}))),
                   "is_corequisite_for",
                   Sorted(Get(coreq_reverse_map, course_code, {})))
           Step(course) ==
               /\ courses' = [courses EXCEPT ![i] = course]
               /\ enhanced_courses' = Append(enhanced_courses, course)
       IN Step(Lists(extract_course_code_from_title(
                         Get(courses[i], "title", << >>))))
    /\ UNCHANGED <<parser_vars, metadata_vars, catalog, all_courses_json,
                   backup_file, response, final_all_courses_json, stage,
                   parsed_courses, prereq_text, prereq_reverse_map,
                   coreq_reverse_map>>

\* the loop is over: final_all_courses.json is opened for writing and
\* json.dump writes the records one after the other (lines 229-234); when a
\* record cannot be written the file keeps the text written before it,
\* which is no JSON document, and main returns
SaveFinal ==
    /\ stage = "attaching"
    /\ Len(enhanced_courses) = Len(courses)
    /\ LET Written(k) ==
               /\ final_all_courses_json' =
                      IF k = 0 THEN enhanced_courses
                      ELSE Truncated(enhanced_courses, k)
               /\ stage' = IF k = 0 THEN "done" ELSE "graph_write_failed"
       IN Written(FirstUnencodable(enhanced_courses))
    /\ UNCHANGED <<parser_vars, metadata_vars, catalog, all_courses_json,
                   backup_file, response, courses, parsed_courses,
                   prereq_text, prereq_reverse_map, coreq_reverse_map,
                   enhanced_courses>>

\* ------------------------------------------------------------------------
\* add_course_metadata.py: the code, the name and the level of a title
\* ------------------------------------------------------------------------

\* title.split(): the maximal runs of characters that are no whitespace
RECURSIVE Words(_)
Words(s) ==
    LET Word(i, j) ==
            IF j = 0 THEN <<From(s, i)>>
            ELSE <<SubSeq(s, i, j - 1)>> \o Words(From(s, j))
        Starting(i) ==
            IF i > Len(s) THEN << >>
            ELSE Word(i, FirstOrZero({j \in i..Len(s) : IsSpace(s[j])}))
    IN Starting(SkipWs(s, 1))

\* ' '.join(words)
RECURSIVE JoinWords(_)
JoinWords(words) ==
    IF words = << >> THEN << >>
    ELSE IF Len(words) = 1 THEN words[1]
    ELSE words[1] \o <<" ">> \o JoinWords(Tail(words))

\* [A-Z]{3,4} over a whole word
IsDept(w) == Len(w) \in {3, 4} /\ \A k \in 1..Len(w) : IsUpper(w[k])

\* [A-Z]{3,4}/[A-Z]{3,4} over a whole word
IsCrossListedDept(w) ==
    \E k \in 1..Len(w) :
        /\ w[k] = "/"
        /\ IsDept(Before(w, k))
        /\ IsDept(From(w, k + 1))

\* \d{4} over a whole word
IsFourDigits(w) == Len(w) = 4 /\ \A k \in 1..4 : IsDigit(w[k])

\* [\d-]+ over a whole word
IsDigitsAndDashes(w) ==
    Len(w) >= 1 /\ \A k \in 1..Len(w) : IsDigit(w[k]) \/ w[k] = "-"

\* \d{4}L over a whole word
IsLabNumber(w) == Len(w) = 5 /\ IsFourDigits(Before(w, 5)) /\ w[5] = "L"

\* number_str.split('-')[0]
FirstNumber(number_str) ==
    LET At(i) == IF i = 0 THEN number_str ELSE Before(number_str, i)
    IN At(FirstOrZero({i \in 1..Len(number_str) : number_str[i] = "-"}))

\* what parse_title_field returns when no pattern matches
NoCodeNoTitle == [course_code |-> << >>, course_title |-> << >>]

\* parse_title_field.  After ' '.join(title.split()) every \s+ of the five
\* patterns matches exactly one space, so a match has the department as
\* its first word, the number as its second, '-' as its third, and the
\* name in the rest; (.+?)\s+\(.+\)$ takes as name the shortest start of
\* the rest that is followed by ' (', one character or more, and a final ')'
parse_title_field(title) ==
    LET words == Words(title)
        rest == JoinWords(SubSeq(words, 4, Len(words)))
        name_ends == {i \in 1..(Len(rest) - 4) :
                         /\ rest[i + 1] = " "
                         /\ rest[i + 2] = "("
                         /\ rest[Len(rest)] = ")"}
        Found(number, name) ==
            [course_code |-> words[1] \o <<" ">> \o number,
             course_title |-> Strip(name)]
        before_parens == Before(rest, FirstOrZero(name_ends) + 1)
    IN IF Len(words) < 4 \/ words[3] # <<"-">> THEN NoCodeNoTitle
       \* pattern_crosslisted (lines 51-60)
       ELSE IF IsCrossListedDept(words[1]) /\ IsFourDigits(words[2])
                 /\ name_ends # {}
       THEN Found(words[2], before_parens)
       ELSE IF ~IsDept(words[1]) THEN NoCodeNoTitle
       \* pattern_multi (lines 64-76)
       ELSE IF IsDigitsAndDashes(words[2]) /\ name_ends # {}
       THEN Found(FirstNumber(words[2]), before_parens)
       \* pattern_lab (lines 79-88)
       ELSE IF IsLabNumber(words[2]) /\ name_ends # {}
       THEN Found(words[2], before_parens)
       \* pattern (lines 92-101)
       ELSE IF IsFourDigits(words[2]) /\ name_ends # {}
       THEN Found(words[2], before_parens)
       \* pattern_no_parens (lines 104-113)
       ELSE IF IsFourDigits(words[2])
       THEN Found(words[2], rest)
       ELSE NoCodeNoTitle

\* int(c) for a digit c
DigitValue(c) == CHOOSE n \in 0..9 : DigitSeq[n + 1] = c

\* the highest level calculate_difficulty gives (line 153)
MaxDifficulty == 4

\* calculate_difficulty: the first digit of the leftmost four digits of the
\* code, 0 counted as 1 and anything above 4 as 4; 1 when there are none
calculate_difficulty(course_code) ==
    LET Level(first_digit) ==
            IF first_digit = 0 THEN 1
            ELSE IF first_digit < MaxDifficulty THEN first_digit
            ELSE MaxDifficulty
        At(i) == IF i = 0 THEN 1 ELSE Level(DigitValue(course_code[i]))
    IN At(FirstOrZero({i \in 1..(Len(course_code) - 3) :
                          \A k \in 0..3 : IsDigit(course_code[i + k])}))

\* the fields the loop of add_course_metadata.main sets on a course (lines
\* 218-238)
WithMetadata(course) ==
    LET Fields(course_code, course_title, difficulty_level) ==
            Put(Put(Put(course, "course_code", course_code),
                    "course_title", course_title),
                "difficulty_level", difficulty_level)
        Parsed(parsed) ==
            IF parsed.course_code # << >> /\ parsed.course_title # << >>
            THEN Fields(parsed.course_code, parsed.course_title,
                        calculate_difficulty(parsed.course_code))
            ELSE Fields(<< >>, << >>, 1)
    IN Parsed(parse_title_field(Get(course, "title", << >>)))

\* add_course_metadata.main up to its loop (lines 165-213): the file
\* SaveFinal wrote is read and copied to its backup; when the copy fails
\* the user is asked whether to continue without it
LoadFinalCourses ==
    /\ stage = "done"
    /\ courses' = final_all_courses_json
    /\ updated_courses' = << >>
    /\ \E copied \in BOOLEAN, answer \in Responses :
          /\ final_backup_file' = IF copied THEN final_all_courses_json
                                  ELSE final_backup_file
          /\ response' = IF copied THEN Unbound ELSE answer
          /\ stage' = IF copied \/ LowerStr(answer) = <<"y">>
                      THEN "adding_metadata" ELSE "metadata_aborted"
    /\ UNCHANGED <<parser_vars, catalog, all_courses_json, backup_file,
                   final_all_courses_json, parsed_courses, prereq_text,
                   prereq_reverse_map, coreq_reverse_map, enhanced_courses>>

\* one iteration of the loop of lines 215-252: the course gets course_code,
\* course_title and difficulty_level and is appended to updated_courses.
\* For a title no pattern matches the title is printed (line 241); when
\* that print raises the handler prints the title again (line 250), which
\* raises out of main, the course updated but not appended
AddMetadata ==
    /\ stage = "adding_metadata"
    /\ Len(updated_courses) < Len(courses)
    /\ LET i == Len(updated_courses) + 1
           Step(course) ==
               \E printed \in (IF course.course_code # << >> THEN {TRUE}
                               ELSE PrintReturns(TitleOrUnknown(course))) :
                   /\ courses' = [courses EXCEPT ![i] = course]
                   /\ updated_courses' =
                          IF printed THEN Append(updated_courses, course)
                          ELSE updated_courses
                   /\ stage' = IF printed THEN stage ELSE "metadata_crashed"
       IN Step(WithMetadata(courses[i]))
    /\ UNCHANGED <<parser_vars, catalog, all_courses_json, backup_file,
                   response, final_all_courses_json, final_backup_file,
                   parsed_courses, prereq_text, prereq_reverse_map,
                   coreq_reverse_map, enhanced_courses>>

\* the loop is over: final_all_courses.json is opened for writing and
\* json.dump writes the records (lines 257-265); when a record cannot be
\* written the file keeps the text written before it and main returns
SaveUpdated ==
    /\ stage = "adding_metadata"
    /\ Len(updated_courses) = Len(courses)
    /\ LET Written(k) ==
               /\ final_all_courses_json' =
                      IF k = 0 THEN updated_courses
                      ELSE Truncated(updated_courses, k)
               /\ stage' = IF k = 0 THEN "metadata_done"
                           ELSE "metadata_write_failed"
       IN Written(FirstUnencodable(updated_courses))
    /\ UNCHANGED <<parser_vars, catalog, all_courses_json, backup_file,
                   response, final_backup_file, courses, parsed_courses,
                   prereq_text, prereq_reverse_map, coreq_reverse_map,
                   enhanced_courses, updated_courses>>

Next ==
    \/ LoadCourses
    \/ ParseCourse
    \/ SaveParsed
    \/ BuildReverseMaps
    \/ AttachCourse
    \/ SaveFinal
    \/ LoadFinalCourses
    \/ AddMetadata
    \/ SaveUpdated

Spec == Init /\ [][Next]_vars

\* ------------------------------------------------------------------------
\* add_reverse_prerequisites.main run on an all_courses.json whose records
\* already carry an AST (SpecGraph): the trees are given directly, so they
\* hold every node type the walk distinguishes
\* ------------------------------------------------------------------------

\* the most records in a catalog of SpecGraph
MaxRecords == 3

GraphTitles == {"T1001", "T1101", "T2303", "TNone"}

PrereqTreeKinds == {"none", "course", "group", "mixed", "textconc"}

CoreqTreeKinds == {"none", "conc"}

SeniorStanding ==
    <<"S","e","n","i","o","r"," ","s","t","a","n","d","i","n","g">>

\* the tree stored under prerequisite_ast.prerequisites
PrereqTree(k) ==
    CASE k = "none" -> None
      [] k = "course" -> CourseNode(Code1101, FALSE)
      [] k = "group" ->
           AndNode(<<CourseNode(Code1101, FALSE),
                     GroupNode(OrNode(<<CourseNode(Code1101, FALSE),
                                        CourseNode(Code2303, FALSE)>>))>>)
      [] k = "mixed" ->
           OrNode(<<CourseNode(Code2303, FALSE),
                    ConcurrentNode(ConcurrentCourseNode(Code1001), << >>)>>)
      [] k = "textconc" ->
           AndNode(<<TextConditionNode(SeniorStanding, "standing"),
                     ConcurrentNode(ConcurrentCourseNode(Code1001), << >>)>>)

\* the tree stored under prerequisite_ast.corequisites
CoreqTree(k) ==
    CASE k = "none" -> None
      [] k = "conc" ->
           AndNode(<<GroupNode(OrNode(
                         <<ConcurrentNode(ConcurrentCourseNode(Code1101), << >>),
                           CourseNode(Code2303, FALSE)>>)),
                     TextConditionNode(SeniorStanding, "standing")>>)

\* a record whose title holds a lone surrogate, which json.load reads from
\* its escaped form and json.dump cannot write
SurrogateEntry == [title |-> "TSurr", prereq |-> "course", coreq |-> "none"]

GraphEntries ==
    [title : GraphTitles, prereq : PrereqTreeKinds, coreq : CoreqTreeKinds]
        \cup {SurrogateEntry}

GraphCatalogs == UNION {[1..n -> GraphEntries] : n \in 0..MaxRecords}

\* the record of all_courses.json written from a graph entry
GraphRecord(e) ==
    [title |-> TitleText(e.title),
     prerequisite_ast |->
         [type |-> "ast", prerequisites |-> PrereqTree(e.prereq),
          corequisites |-> CoreqTree(e.coreq), raw_text |-> << >>]]

InitGraph ==
    /\ ParserIdle
    /\ catalog \in GraphCatalogs
    /\ all_courses_json = [i \in 1..Len(catalog) |-> GraphRecord(catalog[i])]
    /\ backup_file = << >>
    /\ response = Unbound
    /\ prereq_text = Unbound
    /\ final_all_courses_json = << >>
    /\ stage = "parsed"
    /\ courses = << >>
    /\ parsed_courses = << >>
    /\ prereq_reverse_map = << >>
    /\ coreq_reverse_map = << >>
    /\ enhanced_courses = << >>
    /\ final_backup_file = << >>
    /\ updated_courses = << >>

NextGraph ==
    \/ BuildReverseMaps
    \/ AttachCourse
    \/ SaveFinal

SpecGraph == InitGraph /\ [][NextGraph]_vars

\* ------------------------------------------------------------------------
\* Claims about the two batch scripts (specification Spec)
\* ------------------------------------------------------------------------

\* the pieces of a text that lie before its concurrent part
PrerequisitePieces(ps) ==
    IF ps = << >> \/ ps[1] \in {"ConcWith", "PrereqConc"} THEN << >>
    ELSE LET T == {k \in 1..Len(ps) :
                      \/ ps[k] = "MustWith"
                      \/ k > 1 /\ ps[k] = "ConcWith" /\ ps[k - 1] = "and"}
         IN IF T = {} THEN ps ELSE SubSeq(ps, 1, MinOf(T) - 1)

\* the course codes written in the prerequisite part of a text
WrittenPrerequisiteCodes(ps) ==
    {PieceCodes(PrerequisitePieces(ps))[k] :
        k \in 1..Len(PieceCodes(PrerequisitePieces(ps)))}

\* C2: once both scripts have run, for every course C whose title carries a
\* code and every code P written in the prerequisite part of C's text,
\* inside parentheses or not, C's code is in is_prerequisite_for of every
\* record whose code is P.
C2_WrittenPrerequisiteHasEdge ==
    stage = "done" =>
        \A i, j \in 1..Len(catalog) :
            (/\ TitleCode(catalog[i].title) # << >>
             /\ TitleCode(catalog[j].title) \in
                    WrittenPrerequisiteCodes(catalog[i].pieces))
            => \E k \in 1..Len(final_all_courses_json[j].is_prerequisite_for) :
                   final_all_courses_json[j].is_prerequisite_for[k] =
                       TitleCode(catalog[i].title)

\* the prerequisite text of record i of the catalog as the loop reads it:
\* stripped, and empty for a field that holds no text
OwnPrerequisiteText(i) ==
    IF catalog[i].pieces = <<"Null">> THEN << >>
    ELSE Strip(TextOf(catalog[i].pieces))

\* C18: an exception raised while one course is processed, at the field
\* extraction or inside parse, never ends the batch, and the AST stored for
\* that course holds prerequisites None, corequisites None, the course's own
\* prerequisite text as raw_text and the message as parse_error; the records
\* processed so far are the first records of the input, in input order.
C18_ErrorsStayLocal ==
    /\ stage # "crashed"
    /\ stage \in {"parsing", "parsed", "write_failed"} =>
          /\ Len(parsed_courses) <= Len(catalog)
          /\ \A i \in 1..Len(parsed_courses) :
                /\ parsed_courses[i].title = TitleText(catalog[i].title)
                /\ "parse_error" \in DOMAIN parsed_courses[i].prerequisite_ast
                   => /\ parsed_courses[i].prerequisite_ast.prerequisites = None
                      /\ parsed_courses[i].prerequisite_ast.corequisites = None
                      /\ parsed_courses[i].prerequisite_ast.raw_text
                             = OwnPrerequisiteText(i)

\* C19: when writing the output of parse_all_courses.main fails, the file
\* all_courses.json still holds the records it held when the script
\* started; when writing the output of add_course_metadata.main fails, the
\* file final_all_courses.json still holds the records the script read.
C19_InputKeptUntilSerialized ==
    /\ stage = "write_failed" =>
          all_courses_json = [i \in 1..Len(catalog) |-> CourseRecord(catalog[i])]
    /\ stage = "metadata_write_failed" =>
          final_all_courses_json = enhanced_courses

\* record after holds every field of record before with the value it had,
\* and no other field than those of added
FrameKept(before, after, added) ==
    /\ DOMAIN after = DOMAIN before \cup added
    /\ \A f \in DOMAIN before \ added : after[f] = before[f]

\* C20: the records the parse loop has appended are the first records of
\* the catalog, in order, each with the fields it had, unchanged, and
\* prerequisite_ast; the records the graph loop has appended are the first
\* records of its input, in order, each with the fields it had (title,
\* credits, prerequisites, concurrent and prerequisite_ast among them),
\* unchanged, and is_prerequisite_for and is_corequisite_for; a stage that
\* completes writes one record per input record.
C20_OtherFieldsKept ==
    /\ Len(parsed_courses) <= Len(catalog)
    /\ \A i \in 1..Len(parsed_courses) :
          FrameKept(CourseRecord(catalog[i]), parsed_courses[i],
                    {"prerequisite_ast"})
    /\ stage \in {"parsed", "attaching", "done"} =>
          /\ Len(parsed_courses) = Len(catalog)
          /\ all_courses_json = parsed_courses
    /\ Len(enhanced_courses) <= Len(catalog)
    /\ \A i \in 1..Len(enhanced_courses) :
          /\ FrameKept(all_courses_json[i], enhanced_courses[i],
                       {"is_prerequisite_for", "is_corequisite_for"})
          /\ "prerequisite_ast" \in DOMAIN enhanced_courses[i]
    /\ stage = "done" =>
          /\ Len(enhanced_courses) = Len(catalog)
          /\ final_all_courses_json = enhanced_courses

\* both stages ran on two records, one of them with a null prerequisites
\* field; the first record got an AST and a non-empty is_prerequisite_for
\* and still has its credits and its texts
C20_Witness ==
    /\ stage = "done"
    /\ Len(catalog) = 2
    /\ catalog[1].title = "T1101" /\ catalog[1].pieces = <<"A", "or", "B">>
    /\ catalog[1].concurrent = Text4301
    /\ catalog[2].pieces = <<"Null">>
    /\ final_all_courses_json[1].credits = <<"3">>
    /\ final_all_courses_json[1].prerequisites = TextOf(<<"A", "or", "B">>)
    /\ final_all_courses_json[2].prerequisites = JsonNull
    /\ final_all_courses_json[1].prerequisite_ast.prerequisites # None
    /\ final_all_courses_json[1].is_prerequisite_for = <<Code1101>>

\* this step opens all_courses.json for writing (line 422)
OpenedForWriting == stage = "parsing" /\ stage' \in {"parsed", "write_failed"}

\* parse_all_courses.main returned before its loop
EndedBeforeLoop == stage \in {"not_found", "load_failed", "aborted"}

\* the copy to the backup failed and the user was asked
CopyFailed == backup_file = NoFile /\ response # Unbound

\* the order of main with the answers in Yes as the ones that continue:
\* the file changes only in the step that opens it for writing; that step
\* comes after a successful load, with the file as it was read, and with
\* the backup written or an answer in Yes; a missing file, a file that does
\* not load, and a failed copy with another answer end the run before the
\* loop, for good and with the file as it was
WritesOnlyAfterBackupOr(Yes) ==
    /\ all_courses_json' # all_courses_json => OpenedForWriting
    /\ OpenedForWriting =>
          /\ all_courses_json = InputFile
          /\ \/ backup_file = InputFile
             \/ CopyFailed /\ response \in Yes
    /\ (stage = "start" /\ stage' # "start") =>
          /\ all_courses_json = NoFile <=> stage' = "not_found"
          /\ all_courses_json = NotJson <=> stage' = "load_failed"
          /\ (CopyFailed' /\ response' \notin Yes) <=> stage' = "aborted"
    /\ EndedBeforeLoop => stage' = stage
    /\ EndedBeforeLoop' =>
          /\ all_courses_json' = all_courses_json
          /\ all_courses_json' \in {InputFile, NoFile, NotJson}

\* C29 as stated: all_courses.json is opened for writing only after the load
\* succeeded and the backup was attempted, and only if the copy succeeded or
\* the user answered 'y'; a missing file, a load error, or a failed backup
\* answered with anything else ends the run without a write to the file.
C29_WritesOnlyAfterBackupOrY ==
    [][WritesOnlyAfterBackupOr({<<"y">>})]_vars

\* C29, amended: as above, with the answer compared after lower-casing, so
\* that 'y' and 'Y' both continue without the backup and every other answer
\* ends the run.
C29_WritesOnlyAfterBackupOrYes ==
    [][WritesOnlyAfterBackupOr({<<"y">>, <<"Y">>})]_vars

\* the file of a one-course catalog was rewritten after the copy failed and
\* the user answered 'Y'
C29_Witness ==
    /\ stage = "parsed"
    /\ Len(catalog) = 1
    /\ backup_file = NoFile
    /\ response = <<"Y">>
    /\ all_courses_json # InputFile
    /\ all_courses_json = parsed_courses

\* ------------------------------------------------------------------------
\* Claims about the graph builder (specification SpecGraph)
\* ------------------------------------------------------------------------

\* the elements of a list
Range(list) == {list[k] : k \in 1..Len(list)}

\* the records of the catalog whose title carries the code
RecordsOf(code) ==
    {i \in 1..Len(catalog) : TitleCode(catalog[i].title) = code}

\* the course codes of the catalog
CatalogCodes ==
    {TitleCode(catalog[i].title) : i \in 1..Len(catalog)} \ {<< >>}

\* the set the prerequisite walk collects from the tree of output record i
CollectedFrom(i) ==
    get_all_prerequisite_courses(
        final_all_courses_json[i].prerequisite_ast.prerequisites, FALSE)

\* C13: once the graph builder has run, for all course codes C and P of the
\* catalog, P is in the set get_all_prerequisite_courses collects (without
\* corequisites) from the prerequisites tree of a record of C if and only if
\* C is in the is_prerequisite_for list of each record of P.
C13_GraphInversion ==
    stage = "done" =>
        \A C \in CatalogCodes, P \in CatalogCodes : \A p \in RecordsOf(P) :
            (\E c \in RecordsOf(C) : P \in CollectedFrom(c))
            <=> C \in Range(final_all_courses_json[p].is_prerequisite_for)

\* a three-record catalog was processed in which one record requires
\* another through a group and a third record is required by nobody
C13_Witness ==
    /\ stage = "done"
    /\ Len(catalog) = MaxRecords
    /\ \E c, p, q \in 1..Len(catalog) :
          /\ catalog[c].title = "T1001" /\ catalog[c].prereq = "group"
          /\ catalog[p].title = "T2303"
          /\ catalog[q].title = "T1101" /\ catalog[q].prereq = "mixed"
          /\ Code2303 \in CollectedFrom(c)
          /\ Code1001 \in Range(final_all_courses_json[p].is_prerequisite_for)
          /\ Code1001 \notin CollectedFrom(p)
          /\ Code2303 \notin Range(final_all_courses_json[c].is_prerequisite_for)

\* the course codes of a prerequisites tree that lie outside every
\* Concurrent wrapper
PrereqTreeCodes(k) ==
    CASE k = "course" -> {Code1101}
      [] k = "group" -> {Code1101, Code2303}
      [] k = "mixed" -> {Code2303}
      [] OTHER -> {}

\* the course codes of a corequisites tree, those beneath Concurrent
\* wrappers included
CoreqTreeCodes(k) == IF k = "conc" THEN {Code1101, Code2303} ELSE {}

\* the reverse map the catalog calls for when Codes(entry) is what the walk
\* of an entry's tree contributes
ExpectedMap(Codes(_)) ==
    LET Sources(P) == {TitleCode(catalog[c].title) :
                          c \in {i \in 1..Len(catalog) :
                                    /\ TitleCode(catalog[i].title) # << >>
                                    /\ P \in Codes(catalog[i])}}
        Keys == {P \in {Code1001, Code1101, Code2303} : Sources(P) # {}}
    IN [P \in Keys |-> Sources(P)]

\* C14: the maps the graph builder builds hold exactly these edges: in the
\* prerequisite direction a record contributes the codes of its
\* prerequisites tree found under And, Or and Group nodes and none of those
\* beneath a Concurrent wrapper; in the corequisite direction it contributes
\* the codes of its corequisites tree, those beneath Concurrent wrappers and
\* Group nodes included; a TextCondition node contributes nothing.
C14_WalkEdges ==
    stage \in {"attaching", "done"} =>
        /\ prereq_reverse_map = ExpectedMap(LAMBDA e : PrereqTreeCodes(e.prereq))
        /\ coreq_reverse_map = ExpectedMap(LAMBDA e : CoreqTreeCodes(e.coreq))

\* the maps were built for a catalog in which CSCE1001 occurs only beneath
\* Concurrent wrappers of prerequisites trees and CSCE1101 beneath one of a
\* corequisites tree
C14_Witness ==
    /\ stage = "attaching"
    /\ \E c, d \in 1..Len(catalog) :
          /\ catalog[c].title = "T2303" /\ catalog[c].prereq = "mixed"
          /\ catalog[c].coreq = "conc"
          /\ catalog[d].title = "T1101" /\ catalog[d].prereq = "textconc"
    /\ Code1001 \notin DOMAIN prereq_reverse_map
    /\ Code2303 \in prereq_reverse_map[Code2303]
    /\ Code2303 \in coreq_reverse_map[Code1101]

\* the place of a course code of the catalogs in Python's string order
CodeRank(code) ==
    CASE code = Code1001 -> 1
      [] code = Code1101 -> 2
      [] code = Code2303 -> 3
      [] OTHER -> 0

\* a list of course codes of the catalogs, each before a greater one
StrictlyAscending(list) ==
    /\ \A k \in 1..Len(list) : CodeRank(list[k]) > 0
    /\ \A k \in 1..Len(list) - 1 : CodeRank(list[k]) < CodeRank(list[k + 1])

\* C15: once the graph builder has run, is_prerequisite_for and
\* is_corequisite_for of every output record are strictly ascending lists
\* of course codes (sorted, no code twice); when records CSCE1001 and
\* CSCE2303 both require CSCE1101 and no other record with a code does,
\* is_prerequisite_for of CSCE1101 is [CSCE1001, CSCE2303] whatever the order
\* of the records.
C15_ListsStrictlyAscending ==
    stage = "done" =>
        /\ \A i \in 1..Len(final_all_courses_json) :
              /\ StrictlyAscending(final_all_courses_json[i].is_prerequisite_for)
              /\ StrictlyAscending(final_all_courses_json[i].is_corequisite_for)
        /\ \A a, b, c \in 1..Len(catalog) :
              (/\ catalog[a].title = "T1001" /\ catalog[b].title = "T1101"
               /\ catalog[c].title = "T2303"
               /\ Code1101 \in PrereqTreeCodes(catalog[a].prereq)
               /\ Code1101 \in PrereqTreeCodes(catalog[c].prereq)
               /\ Code1101 \notin PrereqTreeCodes(catalog[b].prereq))
              => final_all_courses_json[b].is_prerequisite_for
                     = <<Code1001, Code2303>>

\* CSCE2303 comes first in the catalog and requires CSCE1101, CSCE1001 comes
\* last and names CSCE1101 at two nodes of its tree; CSCE1101 lists both, in
\* ascending order
C15_Witness ==
    /\ stage = "done"
    /\ Len(catalog) = 3
    /\ catalog[1].title = "T2303" /\ catalog[1].prereq = "course"
    /\ catalog[2].title = "T1101"
    /\ catalog[3].title = "T1001" /\ catalog[3].prereq = "group"
    /\ catalog[3].coreq = "conc" /\ catalog[1].coreq = "conc"
    /\ final_all_courses_json[2].is_prerequisite_for = <<Code1001, Code2303>>
    /\ final_all_courses_json[2].is_corequisite_for = <<Code1001, Code2303>>

\* the output records whose title carries no course code
Untitled == {i \in 1..Len(catalog) : TitleCode(catalog[i].title) = << >>}

\* the sets of a reverse map hold course codes of the catalog only, never
\* the empty code of an untitled record, and each key is a code that a
\* titled record's tree contributes
NoEdgeFromUntitled(reverse_map, Codes(_)) ==
    /\ << >> \notin DOMAIN reverse_map
    /\ \A P \in DOMAIN reverse_map :
          /\ reverse_map[P] \subseteq CatalogCodes
          /\ \E c \in 1..Len(catalog) \ Untitled : P \in Codes(catalog[c])

\* C16: a record whose title yields no course code is in no set of either
\* reverse map and is no key of either map, whatever its trees hold, and the
\* output keeps it, at its place, with is_prerequisite_for = [] and
\* is_corequisite_for = []; when the write of the file fails the list
\* enhanced_courses still holds it so.
C16_UntitledRecordKept ==
    /\ stage \in {"attaching", "done"} =>
          /\ NoEdgeFromUntitled(prereq_reverse_map,
                                LAMBDA e : PrereqTreeCodes(e.prereq))
          /\ NoEdgeFromUntitled(coreq_reverse_map,
                                LAMBDA e : CoreqTreeCodes(e.coreq))
    /\ stage = "done" =>
          /\ Len(final_all_courses_json) = Len(catalog)
          /\ \A i \in Untitled :
                /\ final_all_courses_json[i].title = TitleText(catalog[i].title)
                /\ final_all_courses_json[i].is_prerequisite_for = << >>
                /\ final_all_courses_json[i].is_corequisite_for = << >>
    /\ stage = "graph_write_failed" =>
          /\ Len(enhanced_courses) = Len(catalog)
          /\ \A i \in Untitled :
                /\ enhanced_courses[i].title = TitleText(catalog[i].title)
                /\ enhanced_courses[i].is_prerequisite_for = << >>
                /\ enhanced_courses[i].is_corequisite_for = << >>

\* the only record requiring CSCE2303 has no code in its title: CSCE2303 is
\* no key of either map and the untitled record is written with empty lists
C16_Witness ==
    /\ stage = "done"
    /\ Len(catalog) = 2
    /\ catalog[1].title = "TNone" /\ catalog[1].prereq = "group"
    /\ catalog[1].coreq = "conc"
    /\ catalog[2].title = "T2303" /\ catalog[2].prereq = "none"
    /\ catalog[2].coreq = "none"
    /\ prereq_reverse_map = << >> /\ coreq_reverse_map = << >>
    /\ final_all_courses_json[1].is_prerequisite_for = << >>
    /\ final_all_courses_json[2].is_prerequisite_for = << >>

\* the output records whose is_prerequisite_for list is empty
LeafRecords ==
    {i \in 1..Len(final_all_courses_json) :
        final_all_courses_json[i].is_prerequisite_for = << >>}

\* the course codes of the catalog that the prerequisite pass collected from
\* no record
NeverCollected ==
    {C \in CatalogCodes :
        \A c \in 1..Len(catalog) \ Untitled :
            C \notin PrereqTreeCodes(catalog[c].prereq)}

\* C17 as stated: once the graph builder has run, the number of output
\* records whose is_prerequisite_for list is empty equals the number of
\* course codes of the catalog never collected by the prerequisite pass.
C17_LeafTotals ==
    stage = "done" => Cardinality(LeafRecords) = Cardinality(NeverCollected)

\* C17 amended: once the graph builder has run, the output records whose
\* is_prerequisite_for list is empty are exactly the records whose title
\* yields no code and the records whose code was never collected by the
\* prerequisite pass; their number equals the number of never collected
\* codes if and only if every record has a code and no never collected code
\* is the code of two records.
C17_LeafRecords ==
    stage = "done" =>
        /\ LeafRecords =
               Untitled \cup {i \in 1..Len(catalog) :
                                 TitleCode(catalog[i].title) \in NeverCollected}
        /\ Cardinality(LeafRecords) = Cardinality(NeverCollected)
           <=> (/\ Untitled = {}
                /\ \A C \in NeverCollected : Cardinality(RecordsOf(C)) = 1)

\* two records share the collected code CSCE1101 and the one record of the
\* never collected code CSCE1001 requires it: one record with an empty
\* list, one never collected code
C17_Witness ==
    /\ stage = "done"
    /\ Len(catalog) = 3
    /\ catalog[1].title = "T1101" /\ catalog[1].prereq = "none"
    /\ catalog[2].title = "T1101" /\ catalog[2].prereq = "none"
    /\ catalog[3].title = "T1001" /\ catalog[3].prereq = "course"
    /\ LeafRecords = {3}
    /\ NeverCollected = {Code1001}

\* the list of the records of cs at the places order names, in that order
Arranged(cs, order) == [k \in 1..Len(order) |-> cs[order[k]]]

\* the orders in which the places 1..n can be listed, each place once
Orders(n) ==
    {order \in [1..n -> 1..n] : \A a, b \in 1..n : a # b => order[a] # order[b]}

\* the records of cs at the places of S, in the order of cs
Part(cs, S) == SelectSeq([k \in 1..Len(cs) |-> IF k \in S THEN cs[k] ELSE None],
                         LAMBDA c : c # None)

\* the key-wise union of two reverse maps
MergedMaps(a, b) ==
    [k \in DOMAIN a \cup DOMAIN b |-> Get(a, k, {}) \cup Get(b, k, {})]

\* C21: both builders return the map they returned for the catalog when the
\* records are given in any other order and when a record is given twice,
\* and the key-wise union of the maps built from a part of the records and
\* from the remaining records (neither part empty) is the map built from
\* them all.
C21_BuildOrderIndependent ==
    stage = "attaching" =>
        LET cs == all_courses_json
        IN /\ \A order \in Orders(Len(cs)) :
                 /\ build_reverse_prerequisite_map(Arranged(cs, order))
                        = prereq_reverse_map
                 /\ build_reverse_corequisite_map(Arranged(cs, order))
                        = coreq_reverse_map
           /\ \A i \in 1..Len(cs) :
                 /\ build_reverse_prerequisite_map(Append(cs, cs[i]))
                        = prereq_reverse_map
                 /\ build_reverse_corequisite_map(Append(cs, cs[i]))
                        = coreq_reverse_map
           /\ \A S \in (SUBSET (2..Len(cs))) \ {{}} :
                 /\ MergedMaps(
                        build_reverse_prerequisite_map(Part(cs, S)),
                        build_reverse_prerequisite_map(
                            Part(cs, (1..Len(cs)) \ S))) = prereq_reverse_map
                 /\ MergedMaps(
                        build_reverse_corequisite_map(Part(cs, S)),
                        build_reverse_corequisite_map(
                            Part(cs, (1..Len(cs)) \ S))) = coreq_reverse_map

\* the maps were built for three records with three different codes that
\* all require CSCE1101, two of them also concurrently
C21_Witness ==
    /\ stage = "attaching"
    /\ Len(catalog) = 3
    /\ catalog[1].title = "T2303" /\ catalog[1].prereq = "group"
    /\ catalog[2].title = "T1001" /\ catalog[2].prereq = "course"
    /\ catalog[3].title = "T1101" /\ catalog[3].prereq = "course"
    /\ catalog[1].coreq = "conc" /\ catalog[2].coreq = "conc"
    /\ prereq_reverse_map[Code1101] = {Code1001, Code1101, Code2303}
    /\ coreq_reverse_map[Code1101] = {Code1001, Code2303}

\* ------------------------------------------------------------------------
\* Further claims about PrerequisiteParser (specification SpecParser)
\* ------------------------------------------------------------------------

\* C11: parse called with an empty prerequisite text and an empty concurrent
\* text raises nothing and returns exactly prerequisites None, corequisites
\* None and raw_text "".
C11_EmptyTextsGiveEmptyAst ==
    (/\ op = "parse" /\ pc # "ready"
     /\ prerequisites_text = << >> /\ concurrent_text = << >>)
    => /\ pc = "returned"
       /\ DOMAIN result = {"type", "prerequisites", "corequisites", "raw_text"}
       /\ result.prerequisites = [type |-> "None"]
       /\ result.corequisites = [type |-> "None"]
       /\ result.raw_text = << >>

\* parse was called on the two empty texts and returned
C11_Witness ==
    /\ op = "parse" /\ pc = "returned"
    /\ pieces = << >> /\ prerequisites_text = << >> /\ concurrent_text = << >>
    /\ result.raw_text = << >>

\* the course leaves of both trees of a parse result
ResultLeaves ==
    LET Of(tree) == IF tree = None THEN << >> ELSE CourseLeaves(tree)
    IN Of(result.prerequisites) \o Of(result.corequisites)

\* four uppercase letters followed by four digits and nothing else
FourLettersFourDigits(code) ==
    /\ Len(code) = 8
    /\ \A k \in 1..4 : IsUpper(code[k])
    /\ \A k \in 5..8 : IsDigit(code[k])

\* C22: every Course node of the trees parse returns has a course_code of
\* exactly four uppercase letters followed by four digits, no whitespace in
\* it, which is the key extract_course_code_from_title gives for a title
\* that begins with the same letters and digits.
C22_CourseCodeIsJoinKey ==
    (op = "parse" /\ pc = "returned") =>
        \A k \in 1..Len(ResultLeaves) :
            /\ FourLettersFourDigits(ResultLeaves[k].course_code)
            /\ extract_course_code_from_title(ResultLeaves[k].course_code)
                   = ResultLeaves[k].course_code

\* the text_condition leaves of a tree, left to right
RECURSIVE TextLeaves(_)
TextLeaves(n) ==
    LET RECURSIVE Over(_)
        Over(cs) ==
            IF cs = << >> THEN << >>
            ELSE TextLeaves(Head(cs)) \o Over(Tail(cs))
    IN CASE n.type = "text_condition" -> <<n>>
         [] n.type \in {"and", "or"} -> Over(n.children)
         [] n.type = "group" -> TextLeaves(n.expression)
         [] n.type = "concurrent" -> TextLeaves(n.course)
         [] OTHER -> << >>

\* the text_condition leaves of both trees of a parse result
ResultTextLeaves ==
    LET Of(tree) == IF tree = None THEN << >> ELSE TextLeaves(tree)
    IN Of(result.prerequisites) \o Of(result.corequisites)

\* C23: no Course node and no TextCondition node of the trees parse returns
\* holds a group placeholder: "~~~GROUP" occurs in no course_code and in no
\* condition.
C23_NoPlaceholderLeft ==
    (op = "parse" /\ pc = "returned") =>
        /\ \A k \in 1..Len(ResultLeaves) :
              ~Contains(ResultLeaves[k].course_code, GroupMarkHead)
        /\ \A k \in 1..Len(ResultTextLeaves) :
              ~Contains(ResultTextLeaves[k].condition, GroupMarkHead)

\* C24: when the text is two or more fragments that each resolve to None
\* ("xy", too short to be kept) joined by "and" or by "or", _parse_expression
\* and parse's prerequisites are None, not a node built from the unsplit
\* text.
C24_AllNoneSegmentsGiveNone ==
    (/\ op \in {"parse", "_parse_expression"} /\ pc = "returned"
     /\ NumFrags >= 2
     /\ FragSet = {"xy"}
     /\ Cardinality(ConnSet) = 1)
    => Tree = None

\* C25: a fragment without a course code gets the category of the first
\* category of the table (standing, approval, exemption, preparation) that
\* has a phrase in it: "Senior standing" is standing, and so is "Senior
\* standing with instructor approval", which holds phrases of standing and
\* of approval.
C25_FirstCategoryWins ==
    (/\ op \in {"parse", "_parse_expression"} /\ pc = "returned"
     /\ Len(pieces) = 1
     /\ pieces[1] \in {"Senior", "SeniorAppr"})
    => /\ Tree.type = "text_condition"
       /\ Tree.condition = PieceText(pieces[1])
       /\ Tree.category = "standing"

\* C26: a call of parse ends with a result, a record whose trees are nodes
\* or None, whatever parentheses the text holds; it never ends by raising.
C26_ParseReturns ==
    (op = "parse" /\ pc # "ready") =>
        /\ pc = "returned"
        /\ ~IsError(result)

\* the And and Or nodes of a tree at every depth, left to right
RECURSIVE Combinators(_)
Combinators(n) ==
    LET RECURSIVE Over(_)
        Over(cs) ==
            IF cs = << >> THEN << >>
            ELSE Combinators(Head(cs)) \o Over(Tail(cs))
    IN CASE n.type \in {"and", "or"} -> <<n>> \o Over(n.children)
         [] n.type = "group" -> Combinators(n.expression)
         [] n.type = "concurrent" -> Combinators(n.course)
         [] OTHER -> << >>

\* the And and Or nodes of both trees of a parse result
ResultCombinators ==
    LET Of(tree) == IF tree = None THEN << >> ELSE Combinators(tree)
    IN Of(result.prerequisites) \o Of(result.corequisites)

\* C27: in the prerequisites and corequisites trees parse returns, every And
\* node and every Or node has at least two children: a combinator left with
\* one child collapses to that child, and none has an empty children list.
C27_CombinatorsHaveTwoChildren ==
    (op = "parse" /\ pc = "returned") =>
        \A k \in 1..Len(ResultCombinators) :
            Len(ResultCombinators[k].children) >= 2

\* "CSCE 1001 and xy or CSCE 1101": the Or of the second segment loses 'xy'
\* and collapses to the course, which is the second child of an And of two
C27_Witness ==
    /\ op = "parse" /\ pc = "returned"
    /\ pieces = <<"A", "and", "xy", "or", "B">>
    /\ concurrent_text = << >>
    /\ Len(ResultCombinators) = 1
    /\ ResultCombinators[1].type = "and"
    /\ Len(ResultCombinators[1].children) = 2
    /\ ResultCombinators[1].children[2].type = "course"

\* the Concurrent nodes of a tree at every depth, left to right
RECURSIVE ConcurrentNodes(_)
ConcurrentNodes(n) ==
    LET RECURSIVE Over(_)
        Over(cs) ==
            IF cs = << >> THEN << >>
            ELSE ConcurrentNodes(Head(cs)) \o Over(Tail(cs))
    IN CASE n.type = "concurrent" -> <<n>> \o ConcurrentNodes(n.course)
         [] n.type \in {"and", "or"} -> Over(n.children)
         [] n.type = "group" -> ConcurrentNodes(n.expression)
         [] OTHER -> << >>

\* a Course leaf, or an Or whose children are all Course leaves
CourseOrCourses(n) ==
    \/ n.type = "course"
    \/ /\ n.type = "or"
       /\ \A i \in 1..Len(n.children) : n.children[i].type = "course"

\* None, one Concurrent node, or an And of exactly two Concurrent nodes
CorequisitesShape(n) ==
    \/ n = None
    \/ n.type = "concurrent"
    \/ /\ n.type = "and"
       /\ Len(n.children) = 2
       /\ \A i \in 1..2 : n.children[i].type = "concurrent"

\* C28: the prerequisites tree parse returns holds no Concurrent node at any
\* depth; the corequisites tree is None, a single Concurrent node, or an And
\* of exactly two Concurrent nodes; and the course of every Concurrent node
\* is a Course leaf or an Or of Course leaves.
C28_ConcurrentOnlyInCorequisites ==
    (op = "parse" /\ pc = "returned") =>
        LET InCorequisites == ConcurrentNodes(result.corequisites)
        IN /\ ConcurrentNodes(result.prerequisites) = << >>
           /\ CorequisitesShape(result.corequisites)
           /\ \A k \in 1..Len(InCorequisites) :
                  CourseOrCourses(InCorequisites[k].course)

\* "CSCE 1001 and concurrent with CSCE 4301 or CSCE 1101" with the concurrent
\* field "CSCE 4301": a course as prerequisite, and an And of the Concurrent
\* of the text (an Or of two courses) and the Concurrent of the field
C28_Witness ==
    /\ op = "parse" /\ pc = "returned"
    /\ pieces = <<"A", "and", "ConcWith", "or", "B">>
    /\ concurrent_text = Text4301
    /\ result.prerequisites.type = "course"
    /\ result.corequisites.type = "and"
    /\ Len(ConcurrentNodes(result.corequisites)) = 2
    /\ result.corequisites.children[1].course.type = "or"
    /\ result.corequisites.children[2].course.type = "course"

====
